---- MODULE Spec2Model ----
(***************************************************************************)
(* Verification model of the code-aware RAG backend: the webhook receiver  *)
(* (archive/unused_lambdas/ingestion_webhook/index.py), the queue worker   *)
(* (archive/unused_lambdas/ingestion_worker/index.py) and the incremental  *)
(* sync driver (vectordb_sync.py).  Each subsystem has its own             *)
(* specification (SpecWebhook, SpecWorker, SpecSync); the variables of the *)
(* other subsystems stay at their initial values.                          *)
(***************************************************************************)
EXTENDS Integers, Sequences, FiniteSets, TLC

VARIABLES
    \* ---- webhook receiver ----
    IS_LOCAL,            \* module constant IS_LOCAL (LOCAL_DEVELOPMENT == 'true')
    idempotency_table,   \* DynamoDB table IDEMPOTENCY_TABLE_NAME: set of delivery ids
    ingestion_queue,     \* SQS queue INGESTION_QUEUE_URL: sequence of message bodies
    invocations,         \* webhook invocations in the order in which they started
    \* ---- queue worker ----
    index,               \* the Pinecone index: set of stored vectors, keyed by (ns, id)
    s3_archive,          \* keys written to S3_ARCHIVE_BUCKET
    dead_letter,         \* bodies moved to the dead-letter destination
    workers,             \* worker invocations (one Lambda execution environment each)
    clone_clock,         \* wall clock at which a checkout was materialised (file mtime)
    sent,                \* number of jobs put on the queue so far
    history,             \* finished worker invocations, in order of completion
    last_matches,        \* what the last retrieval returned
    \* ---- incremental sync driver ----
    from_tree,           \* the superproject tree at from_rev
    to_tree,             \* the superproject tree at to_rev (also the work tree)
    sync,                \* the run of main_entry / run_sync in progress
    errors_jsonl,        \* the error journal (errors_out), one record per line
    uuid_count,          \* number of uuid4() values drawn so far
    sync_history,        \* finished sync runs, in order
    \* ---- query handler ----
    query_type,          \* analysis.query_type of the query being answered
    specific_targets,    \* analysis.specific_targets is not empty
    contextual_keywords, \* the namespaces for which the query has contextual keywords
    search_pos,          \* the strategy calls intelligent_repository_search has made
    all_results,         \* matches collected by intelligent_repository_search
    produced,            \* the matches the strategies returned, as they returned them
    basic_search,        \* the call of basic_vector_search and what it returned
    top_matches,         \* the matches agentic_search builds the answer from
    \* ---- embedding client ----
    embedding_cache,     \* CodeEmbeddingGenerator.embedding_cache
    provider_embedded,   \* how many times the provider has embedded each text
    last_embed,          \* the last call of the client and what it returned
    embed_calls,         \* the calls made so far
    \* ---- chunkers ----
    file_lines,          \* content.split('\n') of the file being chunked
    profile,             \* min_tokens / max_tokens of the call, and the tokenizer
    chunks_out,          \* what the chunker returned
    sections,            \* the sections handed to re_chunk_if_oversize
    final_chunks,        \* what re_chunk_if_oversize returned
    \* ---- environment ----
    fault_count          \* failures of external services injected so far

vars_wh == <<IS_LOCAL, idempotency_table, invocations>>
vars_wk == <<s3_archive, dead_letter, workers, clone_clock, sent, history, last_matches>>

vars_sy == <<from_tree, to_tree, sync, errors_jsonl, uuid_count, sync_history>>

vars_q == <<query_type, specific_targets, contextual_keywords, search_pos, all_results,
           produced, basic_search, top_matches>>

vars_ch == <<file_lines, profile, chunks_out, sections, final_chunks>>

vars_em == <<embedding_cache, provider_embedded, last_embed, embed_calls>>

vars_fn == <<vars_q, vars_ch, vars_em>>

vars == <<vars_wh, ingestion_queue, index, vars_wk, vars_sy, vars_fn, fault_count>>

None == "None"

(***************************************************************************)
(* Bounds                                                                  *)
(***************************************************************************)
MaxRequests == 3
MaxJobs == 2
NumWorkers == 2
MaxReceive == 2
MaxSyncRuns == 2
MaxFaults == 2

\* An external call fails (n of them); at most MaxFaults failures are injected.
Faults(n) ==
    /\ fault_count + n <= MaxFaults
    /\ fault_count' = fault_count + n

FaultIf(failed) == Faults(IF failed THEN 1 ELSE 0)

(***************************************************************************)
(* Webhook receiver                                                        *)
(***************************************************************************)
DeliveryIds == {"d1", "d2"}

\* Shapes of the x-hub-signature-256 header.
\*   "missing"   header absent
\*   "noeq"      header without '='
\*   "wrongalgo" "<name>=<hex>" with name # sha256
\*   "mismatch"  "sha256=<hex>" where hex is not the HMAC under the secret
\*   "good"      "sha256=<hex>" where hex is the HMAC of the body under the secret
SigKinds == {"missing", "noeq", "wrongalgo", "mismatch", "good"}

Events == {"push", "ping"}
Refs == {"refs/heads/main", "refs/heads/dev"}

\* The repository and commit a push payload names.  A delivery is a fixed
\* payload, so both are determined by the delivery id.
\* A repository full name "owner/name" is kept as its '/'-separated components.
PayloadRepo(d) == <<"org1", "app">>
PayloadCommit(d) == IF d = "d2" THEN "c2" ELSE "c1"

\* validate_github_signature: "ok", "bad", or "raise" (the tuple unpacking of
\* signature.split('=', 1) raises ValueError when the header has no '=').
validate_github_signature(sig) ==
    IF sig = "missing" THEN "bad"
    ELSE IF sig = "noeq" THEN "raise"
    ELSE IF sig = "wrongalgo" THEN "bad"
    ELSE IF sig = "good" THEN "ok"
    ELSE "bad"

\* Requests.  Fields the handler never reads on the path a request takes are
\* fixed, so that equal behaviours are not enumerated twice.
Requests ==
    { r \in [sig : SigKinds, delivery : DeliveryIds \cup {None},
             json_ok : BOOLEAN, event : Events, ref : Refs] :
        /\ (~r.json_ok) => (r.event = "push" /\ r.ref = "refs/heads/main")
        /\ (r.sig # "good") =>
               (r.delivery = "d1" /\ r.json_ok /\ r.event = "push"
                /\ r.ref = "refs/heads/main") }

\* The message body built by enqueue_ingestion_job.
MessageBody(d) ==
    [repository |-> PayloadRepo(d), commit_sha |-> PayloadCommit(d), pusher |-> "dev"]

WorkerIds == 1..NumWorkers

IdleRecord == [pc |-> "idle"]

IdleWorker ==
    /\ s3_archive = {}
    /\ dead_letter = {}
    /\ workers = [w \in WorkerIds |-> IdleRecord]
    /\ clone_clock = 0
    /\ sent = 0
    /\ history = <<>>
    /\ last_matches = {}

IdleSync ==
    /\ fault_count = 0
    /\ from_tree = <<>>
    /\ to_tree = <<>>
    /\ sync = [pc |-> "idle"]
    /\ errors_jsonl = <<>>
    /\ uuid_count = 0
    /\ sync_history = <<>>

IdleWebhook ==
    /\ idempotency_table = {}
    /\ invocations = <<>>

IdleQuery ==
    /\ query_type = "conceptual"
    /\ specific_targets = FALSE
    /\ contextual_keywords = {}
    /\ search_pos = 0
    /\ all_results = <<>>
    /\ produced = <<>>
    /\ basic_search = [called |-> FALSE, why |-> "", matches |-> <<>>]
    /\ top_matches = None

\* No chunker has returned.
NotReturned == [by |-> "", chunks |-> <<>>]

IdleChunker ==
    /\ file_lines = <<>>
    /\ profile = [min_tokens |-> 0, max_tokens |-> 0, newline_tokens |-> 0]
    /\ chunks_out = NotReturned
    /\ sections = <<>>
    /\ final_chunks = NotReturned

Texts == {"t1", "t2"}

\* Python's None as an embedding.
NoEmbedding == <<>>

\* The record of a call: what was asked, what was returned, and what the call
\* made the client send.
EmbedCall(fn, texts, result, input, attempts, failures) ==
    [fn |-> fn, texts |-> texts, result |-> result, sent |-> input,
     attempts |-> attempts, failures |-> failures]

NoCall == EmbedCall("", <<>>, <<>>, <<>>, 0, 0)

IdleEmbed ==
    /\ embedding_cache = [t \in {} |-> NoEmbedding]
    /\ provider_embedded = [t \in Texts |-> 0]
    /\ last_embed = NoCall
    /\ embed_calls = 0

IdleFn ==
    /\ IdleQuery
    /\ IdleChunker
    /\ IdleEmbed

InitWebhook ==
    /\ IS_LOCAL \in BOOLEAN
    /\ IdleWebhook
    /\ ingestion_queue = <<>>
    /\ index = {}
    /\ IdleWorker
    /\ IdleSync
    /\ IdleFn

\* Variant of the push filter that looks at the event type only.
IsPushToMainBranch_AnyRef(event, ref) == event = "push"

\* The filter of lambda_handler: only pushes to the main branch are enqueued.
IsPushToMainBranch(event, ref) == event = "push" /\ ref = "refs/heads/main"

\* Variant of the duplicate check that never reports a duplicate.
is_duplicate_request_NeverDuplicate(delivery_id, table) == FALSE

\* is_duplicate_request: without a delivery id nothing is checked; otherwise
\* the conditional put fails, and the request is a duplicate, exactly when the
\* table already holds the id.
is_duplicate_request(delivery_id, table) ==
    delivery_id # None /\ delivery_id \in table

\* lambda_handler up to and including the conditional put and the JSON parse:
\* everything before the enqueue.  status 0 means the invocation is at the
\* call of enqueue_ingestion_job; 502 is what the API gateway answers when the
\* handler raises.
WebhookReceive(r) ==
    /\ Len(invocations) < MaxRequests
    /\ LET sigres == validate_github_signature(r.sig)
           \* is_duplicate_request runs only when not IS_LOCAL and the signature passed
           checks == ~IS_LOCAL /\ sigres = "ok"
           dup == checks /\ is_duplicate_request(r.delivery, idempotency_table)
           puts == checks /\ r.delivery # None /\ r.delivery \notin idempotency_table
           status ==
               IF ~IS_LOCAL /\ sigres = "raise" THEN 502
               ELSE IF ~IS_LOCAL /\ sigres = "bad" THEN 403
               ELSE IF dup THEN 202
               ELSE IF ~r.json_ok THEN 400
               ELSE IF IsPushToMainBranch(r.event, r.ref) THEN 0
               ELSE 200
       IN /\ idempotency_table' =
                 IF puts THEN idempotency_table \cup {r.delivery} ELSE idempotency_table
          /\ invocations' = Append(invocations,
                 [req |-> r, status |-> status, enqueued |-> FALSE, wrote |-> puts])
    /\ UNCHANGED <<IS_LOCAL, ingestion_queue, index, vars_wk, vars_sy, vars_fn, fault_count>>

\* enqueue_ingestion_job and the answer of lambda_handler: sqs.send_message
\* succeeds (200) or raises (500).
WebhookEnqueue(i, ok) ==
    /\ i \in 1..Len(invocations)
    /\ invocations[i].status = 0
    /\ IF ok
       THEN /\ ingestion_queue' = Append(ingestion_queue,
                    [body |-> MessageBody(invocations[i].req.delivery), receive_count |-> 0])
            /\ invocations' = [invocations EXCEPT ![i].status = 200, ![i].enqueued = TRUE]
       ELSE /\ ingestion_queue' = ingestion_queue
            /\ invocations' = [invocations EXCEPT ![i].status = 500]
    /\ UNCHANGED <<IS_LOCAL, idempotency_table, index, vars_wk, vars_sy, vars_fn, fault_count>>

NextWebhook ==
    \/ \E r \in Requests : WebhookReceive(r)
    \/ \E i \in 1..MaxRequests, ok \in BOOLEAN : WebhookEnqueue(i, ok)

SpecWebhook == InitWebhook /\ [][NextWebhook]_vars

(***************************************************************************)
(* Queue worker                                                            *)
(***************************************************************************)
Repos == {<<"org1", "app">>, <<"org2", "app">>}
Commits == {"c1", "c2"}

\* Jobs that reach the queue (bodies as built by enqueue_ingestion_job).
Jobs ==
    { [repository |-> <<"org1", "app">>, commit_sha |-> "c1", pusher |-> "dev"],
      [repository |-> <<"org1", "app">>, commit_sha |-> "c2", pusher |-> "dev"],
      [repository |-> <<"org2", "app">>, commit_sha |-> "c1", pusher |-> "dev"] }

\* lambda_handler: the message carries no namespace, so the namespace is the
\* last '/'-component of the repository name.
WorkerNamespace(repo_name) == repo_name[Len(repo_name)]

Chunk(c, s, e) == [content |-> c, start_line |-> s, end_line |-> e]

\* What chunker.chunk returns for each file of a checkout.  "f2_esc" is a text
\* that contains the two characters backslash and n; "" is a blank chunk.
RepoTree(commit_sha) ==
    IF commit_sha = "c1"
    THEN [p \in {"a.py", "b.md", "logo.png", ".env"} |->
             IF p = "a.py" THEN <<Chunk("f1", 1, 5), Chunk("g1", 6, 9)>>
             ELSE IF p = "b.md" THEN <<Chunk("doc", 1, 3), Chunk("", 4, 4)>>
             ELSE <<Chunk("raw", 1, 1)>>]
    ELSE [p \in {"a.py", "b.md"} |->
             IF p = "a.py" THEN <<Chunk("f2_esc", 1, 5)>>
             ELSE <<Chunk("doc", 1, 3), Chunk("", 4, 4)>>]

PathSuffix(p) ==
    IF p = "a.py" THEN ".py" ELSE IF p = "b.md" THEN ".md"
    ELSE IF p = "logo.png" THEN ".png" ELSE ""

\* any(part.startswith('.') for part in file_path.parts)
PathHidden(p) == p = ".env"

binary_extensions ==
    {".png", ".jpg", ".jpeg", ".gif", ".bmp", ".ico", ".svg", ".webp",
     ".pdf", ".zip", ".tar", ".gz", ".so", ".dll", ".exe", ".bin", ".dat"}

\* The files the walk of process_repository does not skip, in walk order.
WalkOrder == <<".env", "a.py", "b.md", "logo.png">>
WalkFiles(commit_sha) ==
    { p \in DOMAIN RepoTree(commit_sha) :
        ~PathHidden(p) /\ PathSuffix(p) \notin binary_extensions }

\* str.strip() on the chunk texts of the model (none has outer whitespace).
Strip(c) == c

\* The embedding provider: text -> vector.
Emb(text) == <<"emb", text>>

\* The vectors process_repository builds for one file whose chunking and
\* embedding succeeded.  Metadata fields that are constants of the code
\* (summary placeholders, scores, processed, tracked) are left out.
FileVectors(repo_url, commit_sha, namespace, p, mtime) ==
    LET chunks == RepoTree(commit_sha)[p]
        valid_chunks == SelectSeq(chunks, LAMBDA ch : Strip(ch.content) # "")
    IN [i \in 1..Len(valid_chunks) |->
          [id |-> <<repo_url, p, "code", valid_chunks[i].start_line, valid_chunks[i].end_line>>,
           values |-> Emb(Strip(valid_chunks[i].content)),
           metadata |->
              [repo_name |-> repo_url,
               file_path |-> p,
               namespace |-> namespace,
               commit_sha |-> commit_sha,
               timestamp |-> mtime,
               chunk_content |-> valid_chunks[i].content,
               line_start |-> valid_chunks[i].start_line,
               line_end |-> valid_chunks[i].end_line,
               live |-> TRUE]]]

FileOutcomes == {"ok", "none", "raise"}

RECURSIVE AllVectors(_, _, _, _, _, _)
\* all_vectors of process_repository: the vectors of the walked files, in walk
\* order, for the per-file outcomes `out`.
AllVectors(k, repo_url, commit_sha, namespace, mtime, out) ==
    IF k > Len(WalkOrder) THEN <<>>
    ELSE LET p == WalkOrder[k]
             here == IF p \in WalkFiles(commit_sha) /\ out[p] = "ok"
                     THEN FileVectors(repo_url, commit_sha, namespace, p, mtime)
                     ELSE <<>>
         IN here \o AllVectors(k + 1, repo_url, commit_sha, namespace, mtime, out)

Range(f) == { f[x] : x \in DOMAIN f }

\* The replace chain of activate_new_vectors on chunk_content.
Unescape(content) == IF content = "f2_esc" THEN "f2_lf" ELSE content

\* index.upsert(vectors, namespace): a vector replaces the one with its id.
Upsert(store, namespace, vectors) ==
    { v \in store : ~(v.ns = namespace /\ \E n \in vectors : n.id = v.id) }
    \cup { [ns |-> namespace, id |-> n.id, values |-> n.values, metadata |-> n.metadata] :
           n \in vectors }

\* index.update(id, set_metadata={'live': True}, namespace)
UpdateLive(store, namespace, id) ==
    { IF v.ns = namespace /\ v.id = id
      THEN [v EXCEPT !.metadata.live = TRUE] ELSE v : v \in store }

Finish(w, outcome, disposition, clean, failed_files, after) ==
    /\ history' = Append(history,
           [body |-> workers[w].msg.body, outcome |-> outcome,
            disposition |-> disposition, clean |-> clean,
            failed_files |-> failed_files,
            before |-> workers[w].before, after |-> after])
    /\ workers' = [workers EXCEPT ![w] = IdleRecord]

\* A job arrives on the queue (the webhook's send_message).
SendMessage(job) ==
    /\ sent < MaxJobs
    /\ Faults(0)
    /\ sent' = sent + 1
    /\ ingestion_queue' = Append(ingestion_queue, [body |-> job, receive_count |-> 0])
    /\ UNCHANGED <<vars_fn, vars_wh, vars_sy, index, s3_archive, dead_letter, workers, clone_clock,
                   history, last_matches>>

RemoveAt(q, k) == [i \in 1..(Len(q) - 1) |-> IF i < k THEN q[i] ELSE q[i + 1]]

\* The queue hands message k to a worker and lambda_handler starts:
\* PineconeClient() is constructed outside the try block, so its failure fails
\* the invocation and the queue takes the message back (or moves it to the
\* dead-letter destination after MaxReceive receives).
WorkerInvoke(w, k, ctor_ok) ==
    /\ workers[w].pc = "idle"
    /\ FaultIf(~ctor_ok)
    /\ k \in 1..Len(ingestion_queue)
    /\ LET m == [ingestion_queue[k] EXCEPT !.receive_count = @ + 1]
           rest == RemoveAt(ingestion_queue, k)
       IN IF ctor_ok
          THEN /\ ingestion_queue' = rest
               /\ workers' = [workers EXCEPT ![w] =
                      [pc |-> "process", msg |-> m, before |-> index]]
               /\ UNCHANGED <<dead_letter, history>>
          ELSE /\ IF m.receive_count >= MaxReceive
                  THEN /\ dead_letter' = dead_letter \cup {m.body}
                       /\ ingestion_queue' = rest
                  ELSE /\ dead_letter' = dead_letter
                       /\ ingestion_queue' = Append(rest, m)
               /\ history' = Append(history,
                      [body |-> m.body, outcome |-> "ctor_failed",
                       disposition |-> IF m.receive_count >= MaxReceive
                                       THEN "dead_letter" ELSE "returned",
                       clean |-> FALSE, failed_files |-> {},
                       before |-> index, after |-> index])
               /\ UNCHANGED workers
    /\ UNCHANGED <<vars_fn, vars_wh, vars_sy, index, s3_archive, clone_clock, sent, last_matches>>

\* process_repository.  setup_ok = FALSE: the API key is missing or the clone
\* or checkout raises; the handler's except clause logs it and the handler
\* returns 200, so the queue deletes the message.
WorkerProcess(w, setup_ok, out) ==
    /\ workers[w].pc = "process"
    /\ Faults(IF setup_ok THEN Cardinality({ p \in DOMAIN out : out[p] # "ok" }) ELSE 1)
    /\ LET body == workers[w].msg.body
           namespace == WorkerNamespace(body.repository)
           vectors == AllVectors(1, body.repository, body.commit_sha, namespace,
                                 clone_clock + 1, out)
           clean == \A p \in WalkFiles(body.commit_sha) : out[p] = "ok"
           failed_files == { p \in WalkFiles(body.commit_sha) : out[p] = "raise" }
       IN IF ~setup_ok
          THEN /\ (\A p \in DOMAIN out : out[p] = "ok")   \* no file is reached
               /\ Finish(w, "setup_failed", "deleted", FALSE, {}, index)
               /\ UNCHANGED clone_clock
          ELSE /\ clone_clock' = clone_clock + 1
               /\ IF vectors = <<>>
                  THEN Finish(w, "no_vectors", "deleted", clean, failed_files, index)
                  ELSE /\ workers' = [workers EXCEPT ![w] =
                              [pc |-> "upsert", msg |-> workers[w].msg,
                               before |-> workers[w].before,
                               vectors |-> vectors, clean |-> clean,
                               failed_files |-> failed_files]]
                       /\ UNCHANGED history
    /\ UNCHANGED <<vars_fn, vars_wh, vars_sy, ingestion_queue, index, s3_archive, dead_letter, sent,
                   last_matches>>

\* archive_to_s3 (its failure is swallowed) and the first half of
\* activate_new_vectors: the unescaping of chunk_content and index.upsert.
WorkerUpsert(w, s3_ok, ok) ==
    /\ workers[w].pc = "upsert"
    /\ Faults((IF s3_ok THEN 0 ELSE 1) + (IF ok THEN 0 ELSE 1))
    /\ LET body == workers[w].msg.body
           cleaned == [i \in DOMAIN workers[w].vectors |->
                          [workers[w].vectors[i] EXCEPT
                              !.metadata.chunk_content = Unescape(@)]]
       IN /\ s3_archive' = IF s3_ok
                           THEN s3_archive \cup {<<"archives", body.repository, body.commit_sha>>}
                           ELSE s3_archive
          /\ IF ok
             THEN /\ index' = Upsert(index, WorkerNamespace(body.repository), Range(cleaned))
                  /\ workers' = [workers EXCEPT ![w].pc = "activate", ![w].vectors = cleaned]
                  /\ UNCHANGED history
             ELSE /\ index' = index
                  /\ Finish(w, "upsert_failed", "deleted", FALSE, workers[w].failed_files, index)
    /\ UNCHANGED <<vars_fn, vars_wh, vars_sy, ingestion_queue, dead_letter, clone_clock, sent, last_matches>>

\* The second half of activate_new_vectors: index.update on vectors[0], then
\* the handler returns 200 whether or not the update raised.
WorkerActivate(w, ok) ==
    /\ workers[w].pc = "activate"
    /\ FaultIf(~ok)
    /\ LET body == workers[w].msg.body
       IN IF ok
          THEN /\ index' = UpdateLive(index, WorkerNamespace(body.repository),
                                      workers[w].vectors[1].id)
               /\ Finish(w, "activated", "deleted", workers[w].clean,
                         workers[w].failed_files, index')
          ELSE /\ index' = index
               /\ Finish(w, "update_failed", "deleted", FALSE, workers[w].failed_files, index)
    /\ UNCHANGED <<vars_fn, vars_wh, vars_sy, ingestion_queue, s3_archive, dead_letter, clone_clock, sent,
                   last_matches>>

TOP_K_BASIC == 5

\* basic_vector_search: index.query(top_k=5, namespace=ns) for every namespace
\* asked for, with no metadata filter; the matches of all namespaces combined.
BasicVectorSearch(namespaces_to_query, picks) ==
    /\ Faults(0)
    /\ \A ns \in namespaces_to_query :
          /\ picks[ns] \subseteq { v \in index : v.ns = ns }
          /\ Cardinality(picks[ns]) =
                 IF Cardinality({ v \in index : v.ns = ns }) < TOP_K_BASIC
                 THEN Cardinality({ v \in index : v.ns = ns }) ELSE TOP_K_BASIC
    /\ last_matches' = UNION { picks[ns] : ns \in namespaces_to_query }
    /\ last_matches' # last_matches
    /\ UNCHANGED <<vars_fn, vars_wh, vars_sy, ingestion_queue, index, s3_archive, dead_letter, workers,
                   clone_clock, sent, history>>

Namespaces == { WorkerNamespace(r) : r \in Repos }

InitWorker ==
    /\ IS_LOCAL = FALSE
    /\ IdleWebhook
    /\ ingestion_queue = <<>>
    /\ index = {}
    /\ IdleWorker
    /\ IdleSync
    /\ IdleFn

NextWorker ==
    \/ \E job \in Jobs : SendMessage(job)
    \/ \E w \in WorkerIds, k \in 1..MaxJobs, ctor_ok \in BOOLEAN : WorkerInvoke(w, k, ctor_ok)
    \/ \E w \in WorkerIds, setup_ok \in BOOLEAN :
          \E out \in [{"a.py", "b.md"} -> FileOutcomes] : WorkerProcess(w, setup_ok, out)
    \/ \E w \in WorkerIds, s3_ok \in BOOLEAN, ok \in BOOLEAN : WorkerUpsert(w, s3_ok, ok)
    \/ \E w \in WorkerIds, ok \in BOOLEAN : WorkerActivate(w, ok)
    \/ \E nss \in (SUBSET Namespaces) \ {{}} :
          \E picks \in [nss -> SUBSET index] : BasicVectorSearch(nss, picks)

SpecWorker == InitWorker /\ [][NextWorker]_vars

(***************************************************************************)
(* Incremental sync driver: the git view                                   *)
(***************************************************************************)
\* A path is the sequence of its '/'-separated components.
SuperPaths == <<(<<".gitmodules">>), (<<"bar.py">>), (<<"foo.py">>), (<<"lib">>)>>
SubPaths == <<(<<"new.py">>), (<<"old.py">>)>>

\* Superproject trees: blob contents per path (None = absent); at "lib" the
\* commit the submodule pointer names.  .gitmodules exists exactly when the
\* superproject has the submodule.
Trees ==
    { t \in [Range(SuperPaths) -> {None, "k1", "k2", "gm", "X", "Y"}] :
        /\ t[<<"foo.py">>] \in {None, "k1", "k2"}
        /\ t[<<"bar.py">>] \in {None, "k1"}
        /\ t[<<"lib">>] \in {None, "X", "Y"}
        /\ t[<<".gitmodules">>] = IF t[<<"lib">>] = None THEN None ELSE "gm" }

\* The tree of the submodule repository at a commit: Y adds new.py to X.
SubTree(sha) ==
    [p \in Range(SubPaths) |->
        IF sha = None THEN None
        ELSE IF p = <<"old.py">> THEN "s1"
        ELSE IF sha = "Y" THEN "s2" ELSE None]

\* Rename detection of git diff: a path that disappears and a path that
\* appears with the same blob.
RenamePairs(old, new, paths) ==
    { pr \in Range(paths) \X Range(paths) :
        /\ old[pr[1]] # None /\ new[pr[1]] = None
        /\ old[pr[2]] = None /\ new[pr[2]] # None
        /\ old[pr[1]] = new[pr[2]] }

RECURSIVE NameStatusFrom(_, _, _, _)
\* The lines of `git diff --name-status old new`, each as its tab-separated
\* columns, in path order.
NameStatusFrom(k, old, new, paths) ==
    IF k > Len(paths) THEN <<>>
    ELSE LET p == paths[k]
             rn == RenamePairs(old, new, paths)
             line ==
                 IF \E pr \in rn : pr[1] = p THEN <<>>
                 ELSE IF \E pr \in rn : pr[2] = p
                      THEN <<(<<"R100", (CHOOSE pr \in rn : pr[2] = p)[1], p>>)>>
                 ELSE IF old[p] = None /\ new[p] # None THEN <<(<<"A", p>>)>>
                 ELSE IF old[p] # None /\ new[p] = None THEN <<(<<"D", p>>)>>
                 ELSE IF old[p] # new[p] THEN <<(<<"M", p>>)>>
                 ELSE <<>>
         IN line \o NameStatusFrom(k + 1, old, new, paths)

GitDiffNameStatus(old, new, paths) == NameStatusFrom(1, old, new, paths)

\* The lines of `git diff --submodule=short old new` that concern the
\* submodule.  The short format prints a changed pointer as an ordinary diff
\* of a gitlink: a header, an index line and the two "Subproject commit"
\* lines.  A line is kept as [head, path, old, sep, new]: its first word and,
\* where it has them, a path and two abbreviated commits with their separator.
AbbrevSha(sha) == IF sha = None THEN "0000000" ELSE sha

GitDiffSubmoduleShort(old, new) ==
    LET a == old[<<"lib">>]
        b == new[<<"lib">>]
    IN IF a = b THEN <<>>
       ELSE <<[head |-> "diff", path |-> <<"lib">>, old |-> "", sep |-> "", new |-> ""],
              [head |-> "index", path |-> <<>>, old |-> AbbrevSha(a), sep |-> "..",
               new |-> AbbrevSha(b)]>>
            \o (IF a = None THEN <<>>
                ELSE <<[head |-> "-Subproject", path |-> <<>>, old |-> a, sep |-> "",
                        new |-> ""]>>)
            \o (IF b = None THEN <<>>
                ELSE <<[head |-> "+Subproject", path |-> <<>>, old |-> "", sep |-> "",
                        new |-> b]>>)

\* _parse_submodule_short: the lines matching
\*   ^Submodule\s+(\S+)\s+([0-9a-f]{7,})\.\.([0-9a-f]{7,}).*$
_parse_submodule_short(diff_text) ==
    LET hits == SelectSeq(diff_text,
                    LAMBDA ln : ln.head = "Submodule" /\ ln.sep = ".."
                                /\ ln.old # "" /\ ln.new # "")
    IN [i \in 1..Len(hits) |-> <<hits[i].path, hits[i].old, hits[i].new>>]

IsRenameStatus(st) == st \in {"R100"}

RECURSIVE ExpandNameStatus_RenameAsModify(_, _, _)
\* Variant of the loop that reports a rename as a modification of the new
\* path only, leaving the old path out of the plan.
ExpandNameStatus_RenameAsModify(k, lines, sub_path) ==
    IF k > Len(lines) THEN <<>>
    ELSE LET cols == lines[k]
             st == cols[1]
             here ==
                 IF IsRenameStatus(st) /\ Len(cols) >= 3
                 THEN <<(<<"M", sub_path \o cols[3]>>)>>
                 ELSE IF Len(cols) >= 2 THEN <<(<<st, sub_path \o cols[2]>>)>>
                 ELSE <<>>
         IN here \o ExpandNameStatus_RenameAsModify(k + 1, lines, sub_path)

RECURSIVE ExpandNameStatus(_, _, _)
\* The loop over name-status lines: a rename becomes D old + M new, every
\* other line its (status, path); paths are prefixed with sub_path.
ExpandNameStatus(k, lines, sub_path) ==
    IF k > Len(lines) THEN <<>>
    ELSE LET cols == lines[k]
             st == cols[1]
             here ==
                 IF IsRenameStatus(st) /\ Len(cols) >= 3
                 THEN <<(<<"D", sub_path \o cols[2]>>), (<<"M", sub_path \o cols[3]>>)>>
                 ELSE IF Len(cols) >= 2 THEN <<(<<st, sub_path \o cols[2]>>)>>
                 ELSE <<>>
         IN here \o ExpandNameStatus(k + 1, lines, sub_path)

\* git ls-tree -r --name-only <sha> in the submodule
LsTree(sha) == SelectSeq(SubPaths, LAMBDA p : SubTree(sha)[p] # None)

RECURSIVE SubmoduleChanges(_, _)
\* The loop over the parsed submodule pointer changes.
SubmoduleChanges(k, subs) ==
    IF k > Len(subs) THEN <<>>
    ELSE LET sub_path == subs[k][1]
             oldsha == subs[k][2]
             newsha == subs[k][3]
             added == oldsha = "0000000"
             deleted == newsha = "0000000"
             here ==
                 IF added
                 THEN [i \in 1..Len(LsTree(newsha)) |-> <<"A", sub_path \o LsTree(newsha)[i]>>]
                 ELSE IF deleted
                 THEN [i \in 1..Len(LsTree(oldsha)) |-> <<"D", sub_path \o LsTree(oldsha)[i]>>]
                 ELSE ExpandNameStatus(1,
                          GitDiffNameStatus(SubTree(oldsha), SubTree(newsha), SubPaths),
                          sub_path)
         IN here \o SubmoduleChanges(k + 1, subs)

compute_changes_from_git(old, new) ==
    ExpandNameStatus(1, GitDiffNameStatus(old, new, SuperPaths), <<>>)
    \o SubmoduleChanges(1, _parse_submodule_short(GitDiffSubmoduleShort(old, new)))

(***************************************************************************)
(* Incremental sync driver: main_entry and run_sync                        *)
(***************************************************************************)
BATCH_SIZE == 10

\* repo_name of run_sync: the last component of GITHUB_REPOSITORY.
SyncRepoName == "app"

\* Path(filepath).exists() in the work tree, which is checked out at to_rev.
WorktreeExists(p) ==
    IF Len(p) = 1 THEN to_tree[p] # None
    ELSE /\ to_tree[<<"lib">>] # None
         /\ Tail(p) \in Range(SubPaths)
         /\ SubTree(to_tree[<<"lib">>])[Tail(p)] # None

\* dispatch_chunking: the chunk texts of a work-tree path.  A directory (the
\* submodule path) falls through to chunk_as_summary and yields one summary.
ChunksOf(tree, p) ==
    LET blob == IF Len(p) = 1 THEN tree[p] ELSE SubTree(tree[<<"lib">>])[Tail(p)]
    IN IF p = <<"lib">> THEN <<"summary-of-lib">>
       ELSE IF blob = "k1" THEN <<"k1.a", "k1.b">>
       ELSE <<blob>>

FileChunks(p) == ChunksOf(to_tree, p)

\* The entries process_file builds for a file whose chunks all embed: one per
\* chunk, each with a fresh uuid4 as id.  first is the number of uuids drawn
\* before.
ChunkEntries(chunks, filepath, status, repo_name, first) ==
    [i \in 1..Len(chunks) |->
          [id |-> <<"uuid", first + i>>,
           values |-> Emb(chunks[i]),
           metadata |-> [repo_name |-> repo_name,
                         file_path |-> filepath,
                         chunk_type |-> "content",
                         chunk_index |-> i - 1,
                         content |-> chunks[i],
                         embedded |-> TRUE,
                         status |-> status]]]

process_file(filepath, status, repo_name, first) ==
    ChunkEntries(FileChunks(filepath), filepath, status, repo_name, first)

\* append_error: one JSONL record; the status key is written only if given.
ErrorRecord(file_path, operation, status) ==
    [file_path |-> file_path, operation |-> operation, status |-> status]

\* Variant of the journal reader that skips the first line of the journal.
RetryPlan_SkipsFirstLine(journal) ==
    [i \in 1..(Len(journal) - 1) |->
        <<(IF journal[i + 1].status \in {"A", "M", "D"} THEN journal[i + 1].status ELSE "M"),
          journal[i + 1].file_path>>]

\* The plan --retry-errors reads from the journal.
RetryPlan(journal) ==
    [i \in 1..Len(journal) |->
        <<(IF journal[i].status \in {"A", "M", "D"} THEN journal[i].status ELSE "M"),
          journal[i].file_path>>]

\* main_entry: the plan of a run, for --from-commit and for --retry-errors.
main_entry(mode) ==
    IF mode = "from_commit"
    THEN SelectSeq(compute_changes_from_git(from_tree, to_tree),
                   LAMBDA ch : ~IsRenameStatus(ch[1]))
    ELSE RetryPlan(errors_jsonl)

SyncStart(mode) ==
    /\ sync.pc = "idle"
    /\ Faults(0)
    /\ Len(sync_history) < MaxSyncRuns
    /\ mode = "retry_errors" => errors_jsonl # <<>>
    /\ sync' = [pc |-> "process", mode |-> mode,
                files_to_process |-> main_entry(mode), i |-> 1,
                to_upsert |-> <<>>, delete_operations |-> <<>>,
                failures |-> <<>>, ops |-> <<>>, before |-> index,
                journal |-> errors_jsonl]
    /\ UNCHANGED <<vars_fn, vars_wh, ingestion_queue, index, vars_wk, from_tree, to_tree,
                   errors_jsonl, uuid_count, sync_history>>

Failure(file_path, operation, status) ==
    [file_path |-> file_path, operation |-> operation, status |-> status]

\* One iteration of the "Process files" loop of run_sync.  embed_ok = FALSE:
\* get_embedding raises on one of the file's chunks.
SyncProcessFile(embed_ok) ==
    /\ sync.pc = "process"
    /\ FaultIf(~embed_ok)
    /\ sync.i <= Len(sync.files_to_process)
    /\ LET status == sync.files_to_process[sync.i][1]
           filepath == sync.files_to_process[sync.i][2]
           chunks == process_file(filepath, status, SyncRepoName, uuid_count)
           fail == /\ sync' = [sync EXCEPT
                                 !.i = @ + 1,
                                 !.delete_operations =
                                     IF status \in {"A", "M"} /\ WorktreeExists(filepath)
                                     THEN Append(@, filepath) ELSE @,
                                 !.failures = Append(@, Failure(filepath, "process", status))]
                   /\ errors_jsonl' = Append(errors_jsonl,
                                             ErrorRecord(filepath, "process", status))
                   /\ UNCHANGED uuid_count
       IN IF status = "D"
          THEN /\ embed_ok
               /\ sync' = [sync EXCEPT !.i = @ + 1,
                                       !.delete_operations = Append(@, filepath)]
               /\ UNCHANGED <<errors_jsonl, uuid_count>>
          ELSE IF ~WorktreeExists(filepath)
          THEN /\ embed_ok
               /\ fail
          ELSE IF ~embed_ok
          THEN fail
          ELSE /\ sync' = [sync EXCEPT
                             !.i = @ + 1,
                             !.delete_operations =
                                 IF status \in {"A", "M"} THEN Append(@, filepath) ELSE @,
                             !.to_upsert = @ \o chunks]
               /\ uuid_count' = uuid_count + Len(chunks)
               /\ UNCHANGED errors_jsonl
    /\ UNCHANGED <<vars_fn, vars_wh, ingestion_queue, index, vars_wk, from_tree, to_tree,
                   sync_history>>

\* The end of the "Process files" loop.
SyncProcessDone ==
    /\ sync.pc = "process"
    /\ Faults(0)
    /\ sync.i > Len(sync.files_to_process)
    /\ sync' = [sync EXCEPT !.pc = "delete", !.i = 1]
    /\ UNCHANGED <<vars_fn, vars_wh, ingestion_queue, index, vars_wk, from_tree, to_tree,
                   errors_jsonl, uuid_count, sync_history>>

\* Variant of the delete by filter that removes nothing.
DeleteByFilter_KeepsAll(store, repo_name, file_path) == store

\* index.delete(filter={repo_name, file_path}, namespace=repo_name)
DeleteByFilter(store, repo_name, file_path) ==
    { v \in store : ~(v.ns = repo_name /\ v.metadata.repo_name = repo_name
                      /\ v.metadata.file_path = file_path) }

\* Variant of safe_delete_vectors that re-raises every exception.
safe_delete_vectors_Reraises(absent, del_ok) ==
    IF ~del_ok \/ absent THEN "raise" ELSE "deleted"

\* safe_delete_vectors.  index.delete raises 'namespace not found' when the
\* namespace does not exist yet (absent), and some other error when
\* del_ok = FALSE; the first is swallowed, the second is raised again.
safe_delete_vectors(absent, del_ok) ==
    IF ~del_ok THEN "raise"
    ELSE IF absent THEN "skipped"
    ELSE "deleted"

\* One iteration of the delete loop of run_sync.
SyncDelete(del_ok) ==
    /\ sync.pc = "delete"
    /\ FaultIf(~del_ok)
    /\ sync.i <= Len(sync.delete_operations)
    /\ LET filepath == sync.delete_operations[sync.i]
           absent == { v \in index : v.ns = SyncRepoName } = {}
           outcome == safe_delete_vectors(absent, del_ok)
       IN IF outcome = "skipped"
          THEN /\ sync' = [sync EXCEPT !.i = @ + 1,
                                       !.ops = Append(@, [op |-> "delete", path |-> filepath])]
               /\ UNCHANGED <<index, errors_jsonl>>
          ELSE IF outcome = "deleted"
          THEN /\ index' = DeleteByFilter(index, SyncRepoName, filepath)
               /\ sync' = [sync EXCEPT !.i = @ + 1,
                                       !.ops = Append(@, [op |-> "delete", path |-> filepath])]
               /\ UNCHANGED errors_jsonl
          ELSE /\ sync' = [sync EXCEPT !.i = @ + 1,
                                       !.failures = Append(@, Failure(filepath, "delete", "D"))]
               /\ errors_jsonl' = Append(errors_jsonl, ErrorRecord(filepath, "delete", "D"))
               /\ UNCHANGED index
    /\ UNCHANGED <<vars_fn, vars_wh, ingestion_queue, vars_wk, from_tree, to_tree, uuid_count,
                   sync_history>>

SyncDeleteDone ==
    /\ sync.pc = "delete"
    /\ Faults(0)
    /\ sync.i > Len(sync.delete_operations)
    /\ sync' = [sync EXCEPT !.pc = "upsert", !.i = 0]
    /\ UNCHANGED <<vars_fn, vars_wh, ingestion_queue, index, vars_wk, from_tree, to_tree,
                   errors_jsonl, uuid_count, sync_history>>

\* All orders in which a set can be enumerated.
Orders(S) == { q \in [1..Cardinality(S) -> S] : \A x \in S : \E k \in DOMAIN q : q[k] = x }

\* One batch of the upsert loop: safe_upsert_batch on to_upsert[i:i+BATCH_SIZE].
\* On failure one journal line per (file_path, status) of the batch is written,
\* in the iteration order of a Python set.
SyncUpsertBatch(ok) ==
    /\ sync.pc = "upsert"
    /\ FaultIf(~ok)
    /\ sync.i < Len(sync.to_upsert)
    /\ LET batch == SubSeq(sync.to_upsert, sync.i + 1,
                           IF sync.i + BATCH_SIZE < Len(sync.to_upsert)
                           THEN sync.i + BATCH_SIZE ELSE Len(sync.to_upsert))
           paths_statuses == { <<e.metadata.file_path, e.metadata.status>> : e \in Range(batch) }
           empty_embedding == \E e \in Range(batch) :
                                 e.metadata.chunk_type = "content" /\ e.values = <<>>
       IN IF ok /\ ~empty_embedding
          THEN /\ index' = Upsert(index, SyncRepoName, Range(batch))
               /\ sync' = [sync EXCEPT
                             !.i = @ + BATCH_SIZE,
                             !.ops = Append(@, [op |-> "upsert",
                                                paths |-> { e.metadata.file_path : e \in Range(batch) },
                                                entries |-> { <<e.metadata.file_path,
                                                                e.metadata.chunk_index, e.id>> :
                                                              e \in Range(batch) }])]
               /\ UNCHANGED errors_jsonl
          ELSE \E order \in Orders(paths_statuses) :
               /\ sync' = [sync EXCEPT
                             !.i = @ + BATCH_SIZE,
                             !.failures = @ \o [k \in DOMAIN order |->
                                                  Failure(order[k][1], "upsert", order[k][2])]]
               /\ errors_jsonl' = errors_jsonl \o
                      [k \in DOMAIN order |-> ErrorRecord(order[k][1], "upsert", order[k][2])]
               /\ UNCHANGED index
    /\ UNCHANGED <<vars_fn, vars_wh, ingestion_queue, vars_wk, from_tree, to_tree, uuid_count,
                   sync_history>>

\* The end of run_sync: the summary, and SystemExit(1) when failures were
\* recorded.
SyncFinish ==
    /\ sync.pc = "upsert"
    /\ Faults(0)
    /\ sync.i >= Len(sync.to_upsert)
    /\ sync_history' = Append(sync_history,
           [mode |-> sync.mode, range |-> <<from_tree, to_tree>>,
            files_to_process |-> sync.files_to_process, journal |-> sync.journal,
            failures |-> sync.failures, ops |-> sync.ops,
            before |-> sync.before, after |-> index,
            exit |-> IF sync.failures = <<>> THEN 0 ELSE 1])
    /\ sync' = [pc |-> "idle"]
    /\ UNCHANGED <<vars_fn, vars_wh, ingestion_queue, index, vars_wk, from_tree, to_tree,
                   errors_jsonl, uuid_count>>

\* Between two runs the work tree is checked out at the other revision, so
\* that the next --from-commit run goes over the reversed range.
SyncCheckout ==
    /\ sync.pc = "idle"
    /\ Faults(0)
    /\ sync_history # <<>>
    /\ Len(sync_history) < MaxSyncRuns
    /\ from_tree' = to_tree
    /\ to_tree' = from_tree
    /\ UNCHANGED <<vars_fn, vars_wh, ingestion_queue, index, vars_wk, sync, errors_jsonl,
                   uuid_count, sync_history>>

RECURSIVE SeedEntries(_, _, _)
\* The entries an earlier sync of the whole tree at from_rev has left in the
\* store: every path of the tree ingested as added.
SeedEntries(k, tree, first) ==
    IF k > Len(SuperPaths) THEN <<>>
    ELSE LET p == SuperPaths[k]
             here == IF tree[p] = None THEN <<>>
                     ELSE ChunkEntries(ChunksOf(tree, p), p, "A", SyncRepoName, first)
         IN here \o SeedEntries(k + 1, tree, first + Len(here))

\* The commit ranges of the model: from_rev and to_rev differ in at most two
\* paths (a change, a rename, or a submodule with its .gitmodules entry).
TreePairs ==
    { pr \in Trees \X Trees :
        Cardinality({ p \in Range(SuperPaths) : pr[1][p] # pr[2][p] }) \in {1, 2} }

InitSync ==
    /\ IS_LOCAL = FALSE
    /\ IdleWebhook
    /\ ingestion_queue = <<>>
    /\ IdleWorker
    /\ IdleFn
    /\ \E pr \in TreePairs : from_tree = pr[1] /\ to_tree = pr[2]
    /\ \E seeded \in BOOLEAN :
          LET seed == IF seeded THEN SeedEntries(1, from_tree, 0) ELSE <<>>
          IN /\ index = Upsert({}, SyncRepoName, Range(seed))
             /\ uuid_count = Len(seed)
    /\ sync = [pc |-> "idle"]
    /\ errors_jsonl = <<>>
    /\ sync_history = <<>>
    /\ fault_count = 0

NextSync ==
    \/ \E mode \in {"from_commit", "retry_errors"} : SyncStart(mode)
    \/ \E embed_ok \in BOOLEAN : SyncProcessFile(embed_ok)
    \/ SyncProcessDone
    \/ \E del_ok \in BOOLEAN : SyncDelete(del_ok)
    \/ SyncDeleteDone
    \/ \E ok \in BOOLEAN : SyncUpsertBatch(ok)
    \/ SyncFinish
    \/ SyncCheckout

SpecSync == InitSync /\ [][NextSync]_vars

(***************************************************************************)
(* Query handler: intelligent_repository_search and agentic_search         *)
(***************************************************************************)
MaxResults == 3

TOP_K_AGENTIC == 10

QueryTypes == {"file_search", "code_search"}

\* namespaces_to_query: two of the namespaces of the fallback list.
NamespacesToQuery == <<"webroot", "io">>

\* Keys "file_path:line_start" of the stored chunks a strategy can return.
ResultKeys == {"a.py:1", "b.md:1"}

\* Base similarities returned by the index, in tenths.
Similarities == {5, 8}

Strategies ==
    {"direct_entity_search", "contextual_search", "semantic_repository_search",
     "file_structure_search"}

\* strategy['confidence'] of _get_repository_strategies, in hundredths.
StrategyConfidence(name) ==
    IF name = "direct_entity_search" THEN 90
    ELSE IF name = "contextual_search" THEN 80
    ELSE IF name = "semantic_repository_search" THEN 70
    ELSE 95

\* A match as index.query returns it.
RawMatch(key, score) == [key |-> key, score |-> score]

\* A match as intelligent_repository_search marks it.
MarkedMatch(key, score, name, namespace) ==
    [key |-> key, score |-> score, search_strategy |-> name, repository |-> namespace,
     strategy_confidence |-> StrategyConfidence(name)]

\* result.get('strategy_confidence', 0.5), in hundredths.
DEFAULT_CONFIDENCE == 50

\* rank_score of _deduplicate_and_rank, scaled by 10 * 100 * 10.
rank_score(result, qt) ==
    LET strategy_confidence ==
            IF "strategy_confidence" \in DOMAIN result THEN result.strategy_confidence
            ELSE DEFAULT_CONFIDENCE
        search_strategy ==
            IF "search_strategy" \in DOMAIN result THEN result.search_strategy ELSE None
    IN IF search_strategy = "direct_entity_search"
       THEN result.score * 15 * strategy_confidence
       ELSE IF qt = "file_search" /\ search_strategy = "file_structure_search"
       THEN result.score * 14 * strategy_confidence
       ELSE result.score * 10 * strategy_confidence

\* The first result of every key, in the order of the list.
UniqueResults(results) ==
    LET first == { i \in DOMAIN results :
                     \A j \in DOMAIN results : j < i => results[j].key # results[i].key }
        nth(p) == CHOOSE i \in first : Cardinality({ j \in first : j < i }) = p - 1
    IN [p \in 1..Cardinality(first) |-> results[nth(p)]]

\* sorted(..., reverse=True) and list.sort(reverse=True): a stable sort of s
\* by descending key, keys[i] being the key of s[i].
SortedReverse(s, keys) ==
    LET pos(i) == 1 + Cardinality({ j \in DOMAIN s :
                        \/ keys[j] > keys[i]
                        \/ (keys[j] = keys[i] /\ j < i) })
    IN [p \in 1..Len(s) |-> s[CHOOSE i \in DOMAIN s : pos(i) = p]]

_deduplicate_and_rank(results, qt) ==
    LET unique_results == UniqueResults(results)
    IN SortedReverse(unique_results,
                     [i \in DOMAIN unique_results |-> rank_score(unique_results[i], qt)])

FirstN(s, n) == SubSeq(s, 1, IF Len(s) < n THEN Len(s) ELSE n)

\* _get_repository_strategies(namespace, analysis): the names of the
\* strategies, in the order they are appended.
_get_repository_strategies(namespace) ==
    (IF specific_targets THEN <<"direct_entity_search">> ELSE <<>>)
    \o (IF namespace \in contextual_keywords THEN <<"contextual_search">> ELSE <<>>)
    \o <<"semantic_repository_search">>
    \o (IF query_type = "file_search" THEN <<"file_structure_search">> ELSE <<>>)

\* The calls of _execute_strategy that the two loops of
\* intelligent_repository_search make, in order: <<namespace, strategy>>.
RECURSIVE StrategyCallsOf(_)
StrategyCallsOf(namespaces) ==
    IF namespaces = <<>> THEN <<>>
    ELSE LET namespace == Head(namespaces)
             repo_strategies == _get_repository_strategies(namespace)
         IN [i \in DOMAIN repo_strategies |-> <<namespace, repo_strategies[i]>>]
            \o StrategyCallsOf(Tail(namespaces))

StrategyCalls == StrategyCallsOf(NamespacesToQuery)

\* Variant of the handler of a failed strategy that loses what was collected.
SkipFailedStrategy_LosesResults(results) == <<>>

\* except Exception: print(...); continue -- all_results is as it was.
SkipFailedStrategy(results) == results

\* The strategy at hand returns one match, which is marked with the strategy
\* and the namespace and added to all_results.
ExecuteStrategy(key, score) ==
    /\ top_matches = None
    /\ search_pos < Len(StrategyCalls)
    /\ Len(all_results) < MaxResults
    /\ LET namespace == StrategyCalls[search_pos + 1][1]
           name == StrategyCalls[search_pos + 1][2]
       IN /\ all_results' = Append(all_results, MarkedMatch(key, score, name, namespace))
          /\ produced' = Append(produced, [repository |-> namespace, key |-> key])
    /\ search_pos' = search_pos + 1
    /\ UNCHANGED <<vars_ch, vars_em, query_type, specific_targets, contextual_keywords,
                   top_matches, basic_search, vars_wh, ingestion_queue, index, vars_wk,
                   vars_sy, fault_count>>

\* The strategy at hand returns no match: 'if results' is false.
StrategyReturnsNothing ==
    /\ top_matches = None
    /\ search_pos < Len(StrategyCalls)
    /\ search_pos' = search_pos + 1
    /\ UNCHANGED <<vars_ch, vars_em, query_type, specific_targets, contextual_keywords,
                   all_results, produced, top_matches, basic_search, vars_wh,
                   ingestion_queue, index, vars_wk, vars_sy, fault_count>>

\* The strategy at hand raises: the error is printed and the loop continues.
StrategyRaises ==
    /\ top_matches = None
    /\ search_pos < Len(StrategyCalls)
    /\ FaultIf(TRUE)
    /\ all_results' = SkipFailedStrategy(all_results)
    /\ search_pos' = search_pos + 1
    /\ UNCHANGED <<vars_ch, vars_em, query_type, specific_targets, contextual_keywords,
                   produced, top_matches, basic_search, vars_wh, ingestion_queue, index,
                   vars_wk, vars_sy>>

\* What the provider and the index answer to basic_vector_search: whether the
\* query could be embedded and, for every namespace, whether index.query
\* raised and the matches it returned otherwise.
NamespaceAnswers ==
    {[raised |-> TRUE, matches |-> <<>>], [raised |-> FALSE, matches |-> <<>>]}
    \cup { [raised |-> FALSE, matches |-> <<RawMatch(key, score)>>] :
              key \in ResultKeys, score \in Similarities }

\* The provider cannot embed the query.
NoAnswers ==
    [embedded |-> FALSE,
     results |-> [n \in DOMAIN NamespacesToQuery |-> [raised |-> TRUE, matches |-> <<>>]]]

BasicAnswers ==
    [embedded : BOOLEAN, results : [DOMAIN NamespacesToQuery -> NamespaceAnswers]]

\* basic_vector_search: nothing when the query cannot be embedded; otherwise
\* the matches of the namespaces whose query did not raise, in order.
RECURSIVE BasicMatches(_, _)
BasicMatches(results, n) ==
    IF n > Len(results) THEN <<>>
    ELSE (IF results[n].raised THEN <<>> ELSE results[n].matches)
         \o BasicMatches(results, n + 1)

basic_vector_search(answers) ==
    IF ~answers.embedded THEN <<>> ELSE BasicMatches(answers.results, 1)

\* basic_vector_search has not been called.
NotCalled == [called |-> FALSE, why |-> "", matches |-> <<>>]

BasicCall(why, matches) == [called |-> TRUE, why |-> why, matches |-> matches]

\* combined_matches.sort(key=score, reverse=True); top_matches = [:10]
TopMatches(combined_matches) ==
    FirstN(SortedReverse(combined_matches,
                         [i \in DOMAIN combined_matches |-> combined_matches[i].score]),
           TOP_K_AGENTIC)

\* agentic_search from the return of intelligent_repository_search to
\* top_matches: without matches the basic vector search is called; the list
\* is sorted by the base 'score' and cut to ten.
agentic_search(answers) ==
    /\ top_matches = None
    /\ search_pos = Len(StrategyCalls)
    /\ LET returned == _deduplicate_and_rank(all_results, query_type)
       IN IF returned = <<>>
          THEN /\ basic_search' = BasicCall("no_matches", basic_vector_search(answers))
               /\ top_matches' = TopMatches(basic_vector_search(answers))
          ELSE /\ answers = NoAnswers
               /\ top_matches' = TopMatches(returned)
               /\ UNCHANGED basic_search
    /\ UNCHANGED <<vars_ch, vars_em, query_type, specific_targets, contextual_keywords,
                   all_results, produced, search_pos, vars_wh, ingestion_queue, index,
                   vars_wk, vars_sy, fault_count>>

\* agentic_search when the basic vector search replaces the intelligent one:
\* query_analysis or the agent is missing ("unavailable"), or
\* intelligent_repository_search itself raised ("error") while it chose the
\* strategies of the first namespace.
agentic_search_basic(why, answers) ==
    /\ top_matches = None
    /\ search_pos = 0
    /\ basic_search' = BasicCall(why, basic_vector_search(answers))
    /\ top_matches' = TopMatches(basic_vector_search(answers))
    /\ UNCHANGED <<vars_ch, vars_em, query_type, specific_targets, contextual_keywords,
                   all_results, produced, search_pos, vars_wh, ingestion_queue, index,
                   vars_wk, vars_sy, fault_count>>

InitQuery ==
    /\ IS_LOCAL = FALSE
    /\ IdleWebhook
    /\ ingestion_queue = <<>>
    /\ index = {}
    /\ IdleWorker
    /\ IdleSync
    /\ IdleChunker
    /\ IdleEmbed
    /\ query_type \in QueryTypes
    /\ specific_targets \in BOOLEAN
    /\ contextual_keywords \in {{}, {"webroot"}}
    /\ all_results = <<>>
    /\ produced = <<>>
    /\ search_pos = 0
    /\ basic_search = NotCalled
    /\ top_matches = None

NextQuery ==
    \/ \E key \in ResultKeys, score \in Similarities : ExecuteStrategy(key, score)
    \/ StrategyReturnsNothing
    \/ StrategyRaises
    \/ \E answers \in BasicAnswers : agentic_search(answers)
    \/ \E why \in {"unavailable", "error"}, answers \in BasicAnswers :
          agentic_search_basic(why, answers)

SpecQuery == InitQuery /\ [][NextQuery]_vars

(***************************************************************************)
(* Chunkers: line-based chunking of one file                               *)
(***************************************************************************)
MaxLines == 4

\* The lines of the model, each with the number of tokens the tokenizer
\* counts for it:  a markdown header, a '#' followed by blanks only, an empty
\* line, a list item, a plain line, and a line longer than every max_tokens.
Line(text, tokens) == [text |-> text, tokens |-> tokens]

Lines ==
    { Line("# H", 2), Line("# ", 1), Line("", 0), Line("- x", 2), Line("p", 2),
      Line("long", 5) }

\* The calls of the model: min_tokens, max_tokens, and the number of tokens
\* the tokenizer counts for a '\n' between two lines (0 for the whitespace
\* splitting fallback of count_tokens, 1 for tiktoken).
Profiles == [min_tokens : {0, 2}, max_tokens : {3, 4}, newline_tokens : {0, 1}]

RECURSIVE SumTokens(_)
SumTokens(ls) == IF ls = <<>> THEN 0 ELSE Head(ls).tokens + SumTokens(Tail(ls))

\* count_tokens('\n'.join(ls))
CountJoined(ls, prof) ==
    SumTokens(ls) + (IF Len(ls) > 1 THEN (Len(ls) - 1) * prof.newline_tokens ELSE 0)

\* '\n'.join(ls) seen as lines again: the join of no line is the empty string,
\* which is one empty line.
JoinedLines(ls) == IF ls = <<>> THEN <<Line("", 0)>> ELSE ls

\* A chunk: its content, its line range and the token_count it reports.
MakeChunk(ls, start_line, end_line, token_count) ==
    [content |-> JoinedLines(ls), start_line |-> start_line, end_line |-> end_line,
     token_count |-> token_count]

\* _finalize_pinecone_chunk: token_count = count_tokens(content)
FinalizePineconeChunk(ls, start_line, end_line, prof) ==
    MakeChunk(ls, start_line, end_line, CountJoined(ls, prof))

RECURSIVE EnhancedLoop(_, _, _, _, _, _, _)
\* The while loop of enhanced_chunk_content, at line i (1-based).
EnhancedLoop(i, lines, cur, current_tokens, start_line, chunks, prof) ==
    IF i > Len(lines)
    THEN IF cur # <<>>
         THEN Append(chunks, FinalizePineconeChunk(cur, start_line, i - 1, prof))
         ELSE chunks
    ELSE LET line_tokens == lines[i].tokens + prof.newline_tokens
         IN IF current_tokens + line_tokens > prof.max_tokens /\ cur # <<>>
            THEN EnhancedLoop(i + 1, lines, <<lines[i]>>, line_tokens, i,
                     Append(chunks, FinalizePineconeChunk(cur, start_line, i - 1, prof)),
                     prof)
            ELSE EnhancedLoop(i + 1, lines, Append(cur, lines[i]),
                     current_tokens + line_tokens, start_line, chunks, prof)

EnhancedChunks(lines, prof) == EnhancedLoop(1, lines, <<>>, 0, 1, <<>>, prof)

RECURSIVE FallbackLoop(_, _, _, _, _, _, _)
\* The for loop of _fallback_chunking_with_metadata.
FallbackLoop(i, lines, cur, current_tokens, start_line, chunks, prof) ==
    IF i > Len(lines)
    THEN IF cur # <<>>
         THEN Append(chunks, MakeChunk(cur, start_line, start_line + Len(cur) - 1,
                                       current_tokens))
         ELSE chunks
    ELSE LET line_tokens == lines[i].tokens
         IN IF current_tokens + line_tokens > prof.max_tokens
               /\ current_tokens >= prof.min_tokens
            THEN FallbackLoop(i + 1, lines, <<lines[i]>>, line_tokens, i + 1,
                     Append(chunks, MakeChunk(cur, start_line, start_line + Len(cur) - 1,
                                              current_tokens)),
                     prof)
            ELSE FallbackLoop(i + 1, lines, Append(cur, lines[i]),
                     current_tokens + line_tokens, start_line, chunks, prof)

\* chunks if chunks else [the whole content]
WholeContent(lines, prof) ==
    <<MakeChunk(lines, 1, Len(lines), CountJoined(lines, prof))>>

FallbackChunks(lines, prof) ==
    LET chunks == FallbackLoop(1, lines, <<>>, 0, 1, <<>>, prof)
    IN IF chunks # <<>> THEN chunks ELSE WholeContent(lines, prof)

\* re.match(r'^(#{1,6})\s+(.+)', line)
IsHeader(line) == line.text = "# H"

\* re.match(r'^#{1,6}\s', line)
IsNextHeader(line) == line.text \in {"# H", "# "}

RECURSIVE BreakScan(_, _)
\* _find_markdown_break_point: the scan from the last line down to the second.
BreakScan(k, ls) ==
    IF k < 2 THEN Len(ls) \div 2
    ELSE IF ls[k].text = "" \/ ls[k].text = "- x" THEN k - 1
    ELSE BreakScan(k - 1, ls)

_find_markdown_break_point(ls) == BreakScan(Len(ls), ls)

RECURSIVE MarkdownSection(_, _, _, _, _, _, _)
RECURSIVE MarkdownLoop(_, _, _, _)
\* The inner while loop of _semantic_markdown_chunking_with_metadata: the
\* lines of a section after its header, at line i.
MarkdownSection(i, lines, cur, current_tokens, start_line, chunks, prof) ==
    IF i > Len(lines) \/ IsNextHeader(lines[i])
    THEN MarkdownLoop(i, lines,
             IF cur # <<>>
             THEN Append(chunks, MakeChunk(cur, start_line, i - 1, current_tokens))
             ELSE chunks,
             prof)
    ELSE LET grown == Append(cur, lines[i])
             tokens == current_tokens + lines[i].tokens
             break_point == _find_markdown_break_point(grown)
         IN IF tokens < prof.max_tokens
            THEN MarkdownSection(i + 1, lines, grown, tokens, start_line, chunks, prof)
            ELSE IF break_point > 0
            THEN LET rest == SubSeq(grown, break_point + 1, Len(grown))
                     first == SubSeq(grown, 1, break_point)
                 IN MarkdownSection(i + 1, lines, rest, CountJoined(rest, prof),
                        i - Len(rest) + 1,
                        Append(chunks, MakeChunk(first, start_line, i,
                                                 CountJoined(first, prof))),
                        prof)
            ELSE MarkdownLoop(i, lines,
                     Append(chunks, MakeChunk(grown, start_line, i, tokens)), prof)

\* The outer while loop: a line that is no header is passed over.
MarkdownLoop(i, lines, chunks, prof) ==
    IF i > Len(lines) THEN chunks
    ELSE IF IsHeader(lines[i])
    THEN MarkdownSection(i + 1, lines, <<lines[i]>>, lines[i].tokens, i, chunks, prof)
    ELSE MarkdownLoop(i + 1, lines, chunks, prof)

MarkdownChunks(lines, prof) ==
    LET chunks == MarkdownLoop(1, lines, <<>>, prof)
    IN IF chunks # <<>> THEN chunks ELSE WholeContent(lines, prof)

\* One more line of the file that is going to be chunked.
ReadLine(line) ==
    /\ profile \in Profiles
    /\ chunks_out = NotReturned
    /\ Len(file_lines) < MaxLines
    /\ file_lines' = Append(file_lines, line)
    /\ UNCHANGED <<profile, chunks_out, sections, final_chunks, vars_q, vars_em, vars_wh, ingestion_queue, index,
                   vars_wk, vars_sy, fault_count>>

Returned(by, chunks) ==
    /\ profile \in Profiles
    /\ chunks_out = NotReturned
    /\ file_lines # <<>>
    /\ chunks_out' = [by |-> by, chunks |-> chunks]
    /\ UNCHANGED <<file_lines, profile, sections, final_chunks, vars_q, vars_em, vars_wh, ingestion_queue, index,
                   vars_wk, vars_sy, fault_count>>

enhanced_chunk_content ==
    Returned("enhanced_chunk_content", EnhancedChunks(file_lines, profile))

_fallback_chunking_with_metadata ==
    Returned("_fallback_chunking_with_metadata", FallbackChunks(file_lines, profile))

_semantic_markdown_chunking_with_metadata ==
    Returned("_semantic_markdown_chunking_with_metadata",
             MarkdownChunks(file_lines, profile))

(***************************************************************************)
(* Chunkers: re_chunk_if_oversize                                          *)
(***************************************************************************)
MaxAtoms == 3

MAX_TOKENS == 8192

\* The 3000 of the pattern '.{1,3000}(?:\s+|$)'.
CharChunk == 3000

\* A text is a sequence of atoms.  An atom is a run of 'chars' characters
\* without whitespace, of 'density' tokens a character, that ends or not with
\* one of '.', '!', '?', followed by the whitespace 'sep'.  The whitespace
\* after the last atom of a text is what strip() removes.
Atoms == [chars : {2000, 4000}, density : {1, 3}, stop : BOOLEAN, sep : {" ", "\n"}]

RECURSIVE count_tokens(_)
\* count_tokens: the tokens of the atoms of the text.
count_tokens(text) ==
    IF text = <<>> THEN 0
    ELSE Head(text).chars * Head(text).density + count_tokens(Tail(text))

RECURSIVE SplitSentences(_, _)
\* re.split(r'(?<=[.!?])\s+', section): the parts end after the atoms that end
\* with a '.', '!' or '?'.
SplitSentences(text, part) ==
    IF text = <<>> THEN (IF part = <<>> THEN <<>> ELSE <<part>>)
    ELSE IF Head(text).stop /\ Tail(text) # <<>>
    THEN <<Append(part, Head(text))>> \o SplitSentences(Tail(text), <<>>)
    ELSE SplitSentences(Tail(text), Append(part, Head(text)))

\* current_chunk + " " + part
JoinWithSpace(current_chunk, part) ==
    [current_chunk EXCEPT ![Len(current_chunk)].sep = " "] \o part

RECURSIVE PackParts(_, _, _, _)
\* The loop over split_points, and the append of the last current_chunk.
PackParts(split_points, current_chunk, chunks, max_tokens) ==
    IF split_points = <<>>
    THEN IF current_chunk # <<>> THEN Append(chunks, current_chunk) ELSE chunks
    ELSE LET part == Head(split_points)
             test_chunk == IF current_chunk # <<>>
                           THEN JoinWithSpace(current_chunk, part) ELSE part
         IN IF count_tokens(test_chunk) <= max_tokens
            THEN PackParts(Tail(split_points), test_chunk, chunks, max_tokens)
            ELSE PackParts(Tail(split_points), part,
                     IF current_chunk # <<>> THEN Append(chunks, current_chunk) ELSE chunks,
                     max_tokens)

RECURSIVE CharsOf(_, _, _)
\* The characters of the atoms k..m of a text, one space between two atoms.
CharsOf(text, k, m) ==
    IF k > m THEN 0
    ELSE text[k].chars + (IF k < m THEN 1 ELSE 0) + CharsOf(text, k + 1, m)

RECURSIVE CharChunks(_, _)
\* re.findall(r'.{1,3000}(?:\s+|$)', chunk) from atom k on: the longest run of
\* atoms of one line that fits in 3000 characters; of an atom longer than that,
\* the last 3000 characters.
CharChunks(text, k) ==
    IF k > Len(text) THEN <<>>
    ELSE IF text[k].chars > CharChunk
    THEN <<(<<[text[k] EXCEPT !.chars = CharChunk]>>)>> \o CharChunks(text, k + 1)
    ELSE LET fits(m) == /\ \A j \in k..(m - 1) : text[j].sep = " "
                        /\ CharsOf(text, k, m) <= CharChunk
             last == CHOOSE m \in k..Len(text) :
                        fits(m) /\ \A n \in k..Len(text) : fits(n) => n <= m
         IN <<SubSeq(text, k, last)>> \o CharChunks(text, last + 1)

RECURSIVE ReallyFinal(_, _)
\* The loop that builds really_final.
ReallyFinal(chunks, max_tokens) ==
    IF chunks = <<>> THEN <<>>
    ELSE (IF count_tokens(Head(chunks)) <= max_tokens
          THEN <<Head(chunks)>>
          ELSE CharChunks(Head(chunks), 1))
         \o ReallyFinal(Tail(chunks), max_tokens)

RECURSIVE ReChunk(_, _, _)
\* The loop over the sections.
ReChunk(secs, chunks, max_tokens) ==
    IF secs = <<>> THEN chunks
    ELSE LET section == Head(secs)
         IN IF section = <<>> THEN ReChunk(Tail(secs), chunks, max_tokens)
            ELSE IF count_tokens(section) <= max_tokens
            THEN ReChunk(Tail(secs), Append(chunks, section), max_tokens)
            ELSE ReChunk(Tail(secs),
                     ReallyFinal(PackParts(SplitSentences(section, <<>>), <<>>, chunks,
                                           max_tokens),
                                 max_tokens),
                     max_tokens)

\* The call of re_chunk_if_oversize: no profile, max_tokens is MAX_TOKENS.
RechunkProfile == [min_tokens |-> 0, max_tokens |-> MAX_TOKENS, newline_tokens |-> 0]

\* One more atom of the one section that is going to be re-chunked.
ReadAtom(atom) ==
    /\ profile = RechunkProfile
    /\ final_chunks = NotReturned
    /\ Len(IF sections = <<>> THEN <<>> ELSE sections[1]) < MaxAtoms
    /\ sections' = IF sections = <<>> THEN <<(<<atom>>)>>
                   ELSE <<Append(sections[1], atom)>>
    /\ UNCHANGED <<file_lines, profile, chunks_out, final_chunks, vars_q, vars_em, vars_wh,
                   ingestion_queue, index, vars_wk, vars_sy, fault_count>>

re_chunk_if_oversize ==
    /\ profile = RechunkProfile
    /\ final_chunks = NotReturned
    /\ sections # <<>>
    /\ final_chunks' = [by |-> "re_chunk_if_oversize",
                        chunks |-> ReChunk(sections, <<>>, profile.max_tokens)]
    /\ UNCHANGED <<file_lines, profile, chunks_out, sections, vars_q, vars_em, vars_wh,
                   ingestion_queue, index, vars_wk, vars_sy, fault_count>>

InitChunker ==
    /\ IS_LOCAL = FALSE
    /\ IdleWebhook
    /\ ingestion_queue = <<>>
    /\ index = {}
    /\ IdleWorker
    /\ IdleSync
    /\ IdleQuery
    /\ IdleEmbed
    /\ file_lines = <<>>
    /\ profile \in Profiles \cup {RechunkProfile}
    /\ chunks_out = NotReturned
    /\ sections = <<>>
    /\ final_chunks = NotReturned

NextChunker ==
    \/ \E line \in Lines : ReadLine(line)
    \/ enhanced_chunk_content
    \/ _fallback_chunking_with_metadata
    \/ _semantic_markdown_chunking_with_metadata
    \/ \E atom \in Atoms : ReadAtom(atom)
    \/ re_chunk_if_oversize

SpecChunker == InitChunker /\ [][NextChunker]_vars

(***************************************************************************)
(* Embedding client: CodeEmbeddingGenerator and get_embedding              *)
(***************************************************************************)
MaxEmbedCalls == 3

MaxBatch == 3

\* The consecutive transient failures (timeout, 5xx, rate limit) the provider
\* may answer a request with.
MaxTransient == 6

\* openai.OpenAI(api_key=...) is built without max_retries: the client library
\* repeats a request that failed transiently at most this many times.
DEFAULT_MAX_RETRIES == 2

\* The batches of the model: the lists of 1..MaxBatch texts.
Batches == UNION { [1..n -> Texts] : n \in 1..MaxBatch }

\* The vector the provider computes for a text.
EmbeddingOf(text) == <<"emb", text>>

\* client.embeddings.create for a request the provider answers with
\* 'failures' transient failures before it would succeed: the attempts the
\* client library makes, and whether the call returns or raises.
CreateAttempts(failures) ==
    IF failures <= DEFAULT_MAX_RETRIES THEN failures + 1 ELSE DEFAULT_MAX_RETRIES + 1

CreateReturns(failures) == failures <= DEFAULT_MAX_RETRIES

\* response.data: one embedding for every input, in the order of the input.
ResponseData(input) == [j \in DOMAIN input |-> EmbeddingOf(input[j])]

\* The indices of a list whose text is, or is not, in the cache, in order.
IndicesWhere(texts, cached, hit) ==
    LET sel == { i \in DOMAIN texts : (texts[i] \in DOMAIN cached) = hit }
        nth(p) == CHOOSE i \in sel : Cardinality({ j \in sel : j < i }) = p - 1
    IN [p \in 1..Cardinality(sel) |-> nth(p)]

\* Variant of the final sort that leaves the list as it was built.
SortByIndex_Unsorted(pairs) == pairs

\* cached_embeddings.sort(key=lambda x: x[0]): a stable sort of the
\* (index, embedding) pairs by ascending index.
SortByIndex(pairs) ==
    LET pos(i) == 1 + Cardinality({ j \in DOMAIN pairs :
                        \/ pairs[j][1] < pairs[i][1]
                        \/ (pairs[j][1] = pairs[i][1] /\ j < i) })
    IN [p \in 1..Len(pairs) |-> pairs[CHOOSE i \in DOMAIN pairs : pos(i) = p]]

\* provider_embedded after a request that the provider answered.
Embedded(counts, input) ==
    [t \in Texts |-> counts[t] + Cardinality({ j \in DOMAIN input : input[j] = t })]

\* generate_embedding(text).  The cache is keyed by the md5 of the text, which
\* is taken to be free of collisions: the key is the text.
generate_embedding(text, failures) ==
    /\ embed_calls < MaxEmbedCalls
    /\ embed_calls' = embed_calls + 1
    /\ IF text \in DOMAIN embedding_cache
       THEN /\ failures = 0
            /\ last_embed' = EmbedCall("generate_embedding", <<text>>,
                                       <<embedding_cache[text]>>, <<>>, 0, 0)
            /\ UNCHANGED <<embedding_cache, provider_embedded>>
       ELSE IF CreateReturns(failures)
       THEN /\ embedding_cache' = (text :> EmbeddingOf(text)) @@ embedding_cache
            /\ provider_embedded' = Embedded(provider_embedded, <<text>>)
            /\ last_embed' = EmbedCall("generate_embedding", <<text>>,
                                       <<EmbeddingOf(text)>>, <<text>>,
                                       CreateAttempts(failures), failures)
       ELSE /\ last_embed' = EmbedCall("generate_embedding", <<text>>, <<NoEmbedding>>,
                                       <<text>>, CreateAttempts(failures), failures)
            /\ UNCHANGED <<embedding_cache, provider_embedded>>
    /\ UNCHANGED <<vars_q, vars_ch, vars_wh, ingestion_queue, index, vars_wk, vars_sy,
                   fault_count>>

\* generate_embeddings_batch(texts).
generate_embeddings_batch(texts, failures) ==
    /\ embed_calls < MaxEmbedCalls
    /\ embed_calls' = embed_calls + 1
    /\ LET cached_indices == IndicesWhere(texts, embedding_cache, TRUE)
           uncached_indices == IndicesWhere(texts, embedding_cache, FALSE)
           uncached_texts == [j \in DOMAIN uncached_indices |-> texts[uncached_indices[j]]]
           from_cache == [p \in DOMAIN cached_indices |->
                            <<cached_indices[p], embedding_cache[texts[cached_indices[p]]]>>]
           data == ResponseData(uncached_texts)
           from_provider == [j \in DOMAIN data |-> <<uncached_indices[j], data[j]>>]
           cached_embeddings == SortByIndex(from_cache \o from_provider)
       IN IF uncached_texts = <<>>
          THEN /\ failures = 0
               /\ last_embed' = EmbedCall("generate_embeddings_batch", texts,
                                    [p \in DOMAIN cached_embeddings |-> cached_embeddings[p][2]],
                                    <<>>, 0, 0)
               /\ UNCHANGED <<embedding_cache, provider_embedded>>
          ELSE IF CreateReturns(failures)
          THEN /\ embedding_cache' =
                      [t \in DOMAIN embedding_cache \cup Range(uncached_texts) |->
                          IF t \in Range(uncached_texts) THEN EmbeddingOf(t)
                          ELSE embedding_cache[t]]
               /\ provider_embedded' = Embedded(provider_embedded, uncached_texts)
               /\ last_embed' = EmbedCall("generate_embeddings_batch", texts,
                                    [p \in DOMAIN cached_embeddings |-> cached_embeddings[p][2]],
                                    uncached_texts, CreateAttempts(failures), failures)
          ELSE /\ last_embed' = EmbedCall("generate_embeddings_batch", texts,
                                    [i \in DOMAIN texts |-> NoEmbedding],
                                    uncached_texts, CreateAttempts(failures), failures)
               /\ UNCHANGED <<embedding_cache, provider_embedded>>
    /\ UNCHANGED <<vars_q, vars_ch, vars_wh, ingestion_queue, index, vars_wk, vars_sy,
                   fault_count>>

\* get_embedding(text) of the sync driver: its own client, no cache; a failure
\* is raised as RuntimeError (the result is then no embedding).
get_embedding(text, failures) ==
    /\ embed_calls < MaxEmbedCalls
    /\ embed_calls' = embed_calls + 1
    /\ last_embed' = EmbedCall("get_embedding", <<text>>,
                               IF CreateReturns(failures) THEN <<EmbeddingOf(text)>>
                               ELSE <<NoEmbedding>>,
                               <<text>>, CreateAttempts(failures), failures)
    /\ UNCHANGED <<embedding_cache, provider_embedded, vars_q, vars_ch, vars_wh,
                   ingestion_queue, index, vars_wk, vars_sy, fault_count>>

InitEmbed ==
    /\ IS_LOCAL = FALSE
    /\ IdleWebhook
    /\ ingestion_queue = <<>>
    /\ index = {}
    /\ IdleWorker
    /\ IdleSync
    /\ IdleQuery
    /\ IdleChunker
    /\ IdleEmbed

NextEmbed ==
    \/ \E text \in Texts, failures \in 0..MaxTransient : generate_embedding(text, failures)
    \/ \E texts \in Batches, failures \in 0..MaxTransient :
          generate_embeddings_batch(texts, failures)
    \/ \E text \in Texts, failures \in 0..MaxTransient : get_embedding(text, failures)

SpecEmbed == InitEmbed /\ [][NextEmbed]_vars

(***************************************************************************)
(* Claims about the webhook receiver (SpecWebhook)                         *)
(***************************************************************************)
IsPushToMain(r) ==
    r.sig = "good" /\ r.json_ok /\ r.event = "push" /\ r.ref = "refs/heads/main"

\* The invocations that carry delivery id d with a valid signature.
DeliveriesOf(d) ==
    { i \in DOMAIN invocations :
        invocations[i].req.sig = "good" /\ invocations[i].req.delivery = d }

SetMin(S) == CHOOSE x \in S : \A y \in S : x <= y

\* C1 (as claimed): outside local mode, once every delivery of one push with
\* delivery id d (valid signature, push to refs/heads/main, N >= 1 of them) has
\* been answered, exactly one job has been enqueued for d and every delivery
\* after the first was answered 202.
C1_DedupExactlyOnce ==
    ~IS_LOCAL =>
        \A d \in DeliveryIds :
            LET I == DeliveriesOf(d)
            IN (/\ I # {}
                /\ \A i \in I : IsPushToMain(invocations[i].req)
                /\ \A i \in I : invocations[i].status # 0)
               => /\ Cardinality({ i \in I : invocations[i].enqueued }) = 1
                  /\ \A i \in I : i # SetMin(I) => invocations[i].status = 202

\* C13 (as claimed): in the deployed configuration (signature check on), a
\* request whose signature header is missing or does not match the secret is
\* answered 403, enqueues no job and writes nothing to the idempotency table.
C13_BadSignatureRejected ==
    ~IS_LOCAL =>
        \A i \in DOMAIN invocations :
            invocations[i].req.sig # "good" =>
                /\ invocations[i].status = 403
                /\ ~invocations[i].enqueued
                /\ ~invocations[i].wrote

\* C14: a job is enqueued only for a push event on refs/heads/main: every
\* invocation that enqueued was such a request, and the queue holds exactly
\* the messages of those invocations.
C14_OnlyPushToMainEnqueued ==
    /\ \A i \in DOMAIN invocations :
          invocations[i].enqueued =>
              /\ invocations[i].req.event = "push"
              /\ invocations[i].req.ref = "refs/heads/main"
    /\ Len(ingestion_queue) =
          Cardinality({ i \in DOMAIN invocations : invocations[i].enqueued })

\* C14 witness: a validly signed ping, and a validly signed push to another
\* branch, were answered without a queue message, while a push to main was
\* enqueued.
C14_Witness ==
    /\ \E i \in DOMAIN invocations :
          /\ invocations[i].req.sig = "good" /\ invocations[i].req.event = "ping"
          /\ invocations[i].status = 200 /\ ~invocations[i].enqueued
    /\ \E i \in DOMAIN invocations :
          /\ invocations[i].req.sig = "good" /\ invocations[i].req.event = "push"
          /\ invocations[i].req.ref = "refs/heads/dev"
          /\ invocations[i].status = 200 /\ ~invocations[i].enqueued
    /\ \E i \in DOMAIN invocations : invocations[i].enqueued

\* C15 (as claimed): a validly signed request whose body is not valid JSON is
\* answered 400, and a push to main whose enqueue fails is answered 500.
C15_BadJsonAndEnqueueFailure ==
    \A i \in DOMAIN invocations :
        /\ (invocations[i].req.sig = "good" /\ ~invocations[i].req.json_ok)
              => invocations[i].status = 400
        /\ (/\ IsPushToMain(invocations[i].req)
            /\ invocations[i].status \notin {0, 202}
            /\ ~invocations[i].enqueued)
              => invocations[i].status = 500

\* C21 (as claimed): a request is answered 202 only if an earlier request
\* with the same delivery id has enqueued a job, or is about to (it is at the
\* call of enqueue_ingestion_job).
C21_DuplicateOnlyAfterEnqueue ==
    \A i \in DOMAIN invocations :
        invocations[i].status = 202 =>
            \E j \in 1..(i - 1) :
                /\ invocations[j].req.delivery = invocations[i].req.delivery
                /\ (invocations[j].enqueued \/ invocations[j].status = 0)

\* C24: in the deployed configuration (signature and duplicate checks on), of
\* the requests that carry one delivery id, however their steps interleave,
\* at most one writes the idempotency table and at most one enqueues a job,
\* and the table holds exactly the ids that were written.
C24_OneConcurrentInsertWins ==
    ~IS_LOCAL =>
        /\ \A d \in DeliveryIds :
              /\ Cardinality({ i \in DOMAIN invocations :
                      invocations[i].req.delivery = d /\ invocations[i].wrote }) <= 1
              /\ Cardinality({ i \in DOMAIN invocations :
                      invocations[i].req.delivery = d
                      /\ (invocations[i].enqueued \/ invocations[i].status = 0) }) <= 1
        /\ idempotency_table =
              { invocations[i].req.delivery :
                  i \in { k \in DOMAIN invocations : invocations[k].wrote } }

\* C24 witness: a second push with the same delivery id was answered 202 while
\* the first was still at the call of enqueue_ingestion_job.
C24_Witness ==
    /\ ~IS_LOCAL
    /\ \E i, j \in DOMAIN invocations :
          /\ i < j
          /\ invocations[i].req.delivery = invocations[j].req.delivery
          /\ invocations[i].status = 0
          /\ IsPushToMain(invocations[j].req)
          /\ invocations[j].status = 202

(***************************************************************************)
(* Claims about the incremental sync driver (SpecSync)                     *)
(***************************************************************************)
\* The (file_path, chunk_index, id) triples a finished run upserted.
UpsertedEntries(h) ==
    UNION { h.ops[k].entries : k \in { n \in DOMAIN h.ops : h.ops[n].op = "upsert" } }

\* C2 (as claimed): two ingestions of the same commit range that both ran
\* without failure give every chunk (file_path, chunk_index) the same vector
\* id.
C2_ChunkIdDeterministic ==
    \A i, j \in DOMAIN sync_history :
        (/\ i < j
         /\ sync_history[i].mode = "from_commit" /\ sync_history[j].mode = "from_commit"
         /\ sync_history[i].range = sync_history[j].range
         /\ sync_history[i].failures = <<>> /\ sync_history[j].failures = <<>>)
        => UpsertedEntries(sync_history[i]) = UpsertedEntries(sync_history[j])

\* C4 (as claimed): when the sync over (from_rev, to_rev) is run a second time
\* right after a first run, both without failure, the store after the second
\* run equals the store after the first.
C4_SyncIdempotent ==
    \A i \in DOMAIN sync_history :
        (/\ i + 1 \in DOMAIN sync_history
         /\ sync_history[i].mode = "from_commit"
         /\ sync_history[i + 1].mode = "from_commit"
         /\ sync_history[i + 1].range = sync_history[i].range
         /\ sync_history[i].failures = <<>> /\ sync_history[i + 1].failures = <<>>)
        => sync_history[i + 1].after = sync_history[i].after

\* The rename lines of the superproject diff over a range (from, to).
RenameLinesOf(range) ==
    { ln \in Range(GitDiffNameStatus(range[1], range[2], SuperPaths)) : IsRenameStatus(ln[1]) }

RenameLines == RenameLinesOf(<<from_tree, to_tree>>)

VectorsOf(store, file_path) == { v \in store : v.metadata.file_path = file_path }

DeleteAttempts(h, file_path) ==
    Cardinality({ k \in DOMAIN h.ops : h.ops[k].op = "delete" /\ h.ops[k].path = file_path })
    + Cardinality({ k \in DOMAIN h.failures :
                      h.failures[k].operation = "delete" /\ h.failures[k].file_path = file_path })

UpsertsOf(h, file_path) ==
    { k \in DOMAIN h.ops : h.ops[k].op = "upsert" /\ file_path \in h.ops[k].paths }

\* C9: a rename old -> new of the diff puts exactly (D, old) and (M, new) into
\* the plan of a --from-commit run, in that order and nothing else for the
\* two paths; the run issues one delete for old and no upsert for old; and
\* when nothing failed for new, one upsert carries the vectors of new, whose
\* ids differ from every id old had in the store before the run.
C9_RenameHandling ==
    /\ \A ln \in RenameLines :
          (sync.pc # "idle" /\ sync.mode = "from_commit") =>
              SelectSeq(sync.files_to_process, LAMBDA ch : ch[2] \in {ln[2], ln[3]})
                  = <<(<<"D", ln[2]>>), (<<"M", ln[3]>>)>>
    /\ \A k \in DOMAIN sync_history :
          LET h == sync_history[k]
          IN h.mode = "from_commit" =>
                \A ln \in RenameLinesOf(h.range) :
                    LET old == ln[2]
                        new == ln[3]
                    IN /\ DeleteAttempts(h, old) = 1
                       /\ UpsertsOf(h, old) = {}
                       /\ (\A n \in DOMAIN h.failures : h.failures[n].file_path # new) =>
                             /\ Cardinality(UpsertsOf(h, new)) = 1
                             /\ VectorsOf(h.after, new) # {}
                             /\ { v.id : v \in VectorsOf(h.after, new) }
                                   \cap { v.id : v \in VectorsOf(h.before, old) } = {}

\* C9 witness: a finished --from-commit run over a rename, without failure,
\* where old had vectors before the run and new has vectors after it.
C9_Witness ==
    \E k \in DOMAIN sync_history : \E ln \in RenameLinesOf(sync_history[k].range) :
        /\ sync_history[k].mode = "from_commit"
        /\ sync_history[k].failures = <<>>
        /\ VectorsOf(sync_history[k].before, ln[2]) # {}
        /\ VectorsOf(sync_history[k].after, ln[2]) = {}
        /\ VectorsOf(sync_history[k].after, ln[3]) # {}

\* Run i applied diff(A, B) to an empty store and run i + 1 applied diff(B, A),
\* both with --from-commit and without failure.
IsReplay(i) ==
    /\ i \in DOMAIN sync_history /\ i + 1 \in DOMAIN sync_history
    /\ sync_history[i].mode = "from_commit" /\ sync_history[i + 1].mode = "from_commit"
    /\ sync_history[i].before = {}
    /\ sync_history[i + 1].range = <<sync_history[i].range[2], sync_history[i].range[1]>>
    /\ sync_history[i].failures = <<>> /\ sync_history[i + 1].failures = <<>>

\* C11 (as claimed): applying the plan of diff(A, B) and then the plan of
\* diff(B, A) to an empty store leaves no vector in the store.
C11_ReplayLeavesEmpty ==
    \A i \in DOMAIN sync_history : IsReplay(i) => sync_history[i + 1].after = {}

\* C11 (amended): after such a replay the store is empty when every entry of
\* diff(A, B) is an addition; in general the vectors left are those of the
\* paths that diff(B, A) adds or modifies, i.e. the changed paths present at A.
C11_ReplayLeavesOnlyRestored ==
    \A i \in DOMAIN sync_history :
        IsReplay(i) =>
            LET fwd == sync_history[i].files_to_process
                back == sync_history[i + 1].files_to_process
                restored == { back[k][2] : k \in { n \in DOMAIN back : back[n][1] # "D" } }
            IN /\ (\A k \in DOMAIN fwd : fwd[k][1] = "A") => sync_history[i + 1].after = {}
               /\ { v.metadata.file_path : v \in sync_history[i + 1].after } = restored

\* C11 witness: a replay whose forward plan has only additions, which put
\* vectors into the store that the backward run removed again.
C11_Witness ==
    \E i \in DOMAIN sync_history :
        /\ IsReplay(i)
        /\ \A k \in DOMAIN sync_history[i].files_to_process :
               sync_history[i].files_to_process[k][1] = "A"
        /\ sync_history[i].after # {}
        /\ sync_history[i + 1].after = {}

JournalPaths(journal) == { journal[k].file_path : k \in DOMAIN journal }

PlanPaths(plan) == { plan[k][2] : k \in DOMAIN plan }

\* The paths a finished run issued a delete or an upsert for.
TouchedPaths(h) ==
    UNION { IF h.ops[k].op = "delete" THEN {h.ops[k].path} ELSE h.ops[k].paths :
            k \in DOMAIN h.ops }

\* C16: the files a --retry-errors run processes are exactly the file paths
\* recorded in the error journal it reads; the run deletes and upserts for
\* no other path, and the vectors of every other path are the same after the
\* run as before it.
C16_RetryOnlyFailedPaths ==
    /\ (sync.pc # "idle" /\ sync.mode = "retry_errors") =>
          PlanPaths(sync.files_to_process) = JournalPaths(sync.journal)
    /\ \A k \in DOMAIN sync_history :
          LET h == sync_history[k]
              failed == JournalPaths(h.journal)
          IN h.mode = "retry_errors" =>
                /\ PlanPaths(h.files_to_process) = failed
                /\ TouchedPaths(h) \subseteq failed
                /\ { v \in h.before : v.metadata.file_path \notin failed }
                     = { v \in h.after : v.metadata.file_path \notin failed }

\* C16 witness: a finished --retry-errors run that deleted and upserted for a
\* journaled path while the store held vectors of a path not in the journal.
C16_Witness ==
    \E k \in DOMAIN sync_history :
        LET h == sync_history[k]
        IN /\ h.mode = "retry_errors"
           /\ \E n \in DOMAIN h.ops : h.ops[n].op = "upsert"
           /\ \E n \in DOMAIN h.ops : h.ops[n].op = "delete"
           /\ \E v \in h.before : v.metadata.file_path \notin JournalPaths(h.journal)

OnlySubmoduleMoved ==
    /\ from_tree[<<"lib">>] = "X" /\ to_tree[<<"lib">>] = "Y"
    /\ \A p \in Range(SuperPaths) : p # <<"lib">> => from_tree[p] = to_tree[p]

\* C10 (as claimed): in a --from-commit run, when the only change moves the
\* submodule lib from X to Y (Y adds lib/new.py) the plan is exactly
\* (A, lib/new.py); when the submodule is added the plan has (A, lib/f) for
\* every file f at the new commit; when it is removed the plan has (D, lib/f)
\* for every file f at the old commit.
C10_SubmodulePlan ==
    (sync.pc # "idle" /\ sync.mode = "from_commit") =>
        /\ OnlySubmoduleMoved =>
              sync.files_to_process = <<(<<"A", <<"lib", "new.py">>>>)>>
        /\ (from_tree[<<"lib">>] = None /\ to_tree[<<"lib">>] # None) =>
              \A f \in Range(LsTree(to_tree[<<"lib">>])) :
                  <<"A", <<"lib">> \o f>> \in Range(sync.files_to_process)
        /\ (from_tree[<<"lib">>] # None /\ to_tree[<<"lib">>] = None) =>
              \A f \in Range(LsTree(from_tree[<<"lib">>])) :
                  <<"D", <<"lib">> \o f>> \in Range(sync.files_to_process)

\* The runs to look at: the finished ones and the one in progress.
RunsSoFar == Range(sync_history) \cup (IF sync.pc = "idle" THEN {} ELSE {sync})

\* C20: in every sync run, every upsert that carries new vectors of a file
\* comes after the delete of that file's existing vectors in the same run.
C20_DeleteBeforeUpsert ==
    \A h \in RunsSoFar :
        \A k \in DOMAIN h.ops :
            h.ops[k].op = "upsert" =>
                \A file_path \in h.ops[k].paths :
                    \E j \in 1..(k - 1) :
                        h.ops[j].op = "delete" /\ h.ops[j].path = file_path

\* The same for the files whose delete did not fail.
C20_OrderedWhenDeleteSucceeds ==
    \A h \in RunsSoFar :
        \A k \in DOMAIN h.ops :
            h.ops[k].op = "upsert" =>
                \A file_path \in h.ops[k].paths :
                    (\A n \in DOMAIN h.failures :
                        ~(h.failures[n].operation = "delete"
                          /\ h.failures[n].file_path = file_path))
                    => \E j \in 1..(k - 1) :
                          h.ops[j].op = "delete" /\ h.ops[j].path = file_path

\* C22 (as claimed): after a sync run, a file with status A or M whose
\* processing failed, and for which the run upserted nothing, still has every
\* vector it had in the store before the run.
C22_FailedFileKeepsVectors ==
    \A h \in Range(sync_history) :
        \A n \in DOMAIN h.failures :
            LET f == h.failures[n]
            IN (/\ f.operation = "process"
                /\ f.status \in {"A", "M"}
                /\ \A k \in DOMAIN h.ops :
                      h.ops[k].op = "upsert" => f.file_path \notin h.ops[k].paths)
               => VectorsOf(h.before, f.file_path) \subseteq h.after

\* C26 (as claimed): every journal entry a sync run writes carries the status
\* the file has in the plan of the run.  (The entries a run writes are its
\* recorded failures, in order.)
C26_JournalKeepsPlanStatus ==
    \A h \in RunsSoFar :
        \A n \in DOMAIN h.failures :
            \E k \in DOMAIN h.files_to_process :
                /\ h.files_to_process[k][2] = h.failures[n].file_path
                /\ h.files_to_process[k][1] = h.failures[n].status

\* The same for the entries of the operations 'process' and 'upsert' only.
C26_ProcessAndUpsertKeepStatus ==
    \A h \in RunsSoFar :
        \A n \in DOMAIN h.failures :
            h.failures[n].operation # "delete" =>
                \E k \in DOMAIN h.files_to_process :
                    /\ h.files_to_process[k][2] = h.failures[n].file_path
                    /\ h.files_to_process[k][1] = h.failures[n].status

\* C29: an iteration of the delete loop that meets a namespace which does
\* not exist, and no other error, records no failure, writes no journal entry
\* and leaves the store as it is; an iteration in which the store raises any
\* other error records a 'delete' failure and journals it.
C29_AbsentNamespaceIsNoop ==
    [][(sync.pc = "delete" /\ sync'.pc = "delete") =>
          LET absent == { v \in index : v.ns = SyncRepoName } = {}
              other_error == fault_count' > fault_count
          IN /\ (absent /\ ~other_error) =>
                    /\ sync'.failures = sync.failures
                    /\ errors_jsonl' = errors_jsonl
                    /\ index' = index
             /\ other_error =>
                    /\ Len(sync'.failures) = Len(sync.failures) + 1
                    /\ sync'.failures[Len(sync'.failures)].operation = "delete"
                    /\ Len(errors_jsonl') = Len(errors_jsonl) + 1
                    /\ errors_jsonl'[Len(errors_jsonl')].operation = "delete"
                    /\ index' = index]_vars

\* C29 witness: a finished run that started on a store without the namespace,
\* whose delete was skipped without a failure and which then upserted.
C29_Witness ==
    \E n \in DOMAIN sync_history :
        LET h == sync_history[n]
        IN /\ { v \in h.before : v.ns = SyncRepoName } = {}
           /\ h.failures = <<>>
           /\ h.exit = 0
           /\ \E j, k \in DOMAIN h.ops :
                 /\ j < k
                 /\ h.ops[j].op = "delete"
                 /\ h.ops[k].op = "upsert"
                 /\ h.ops[j].path \in h.ops[k].paths

(***************************************************************************)
(* Claims about the queue worker (SpecWorker)                              *)
(***************************************************************************)
Activated(k) == history[k].outcome = "activated"

\* C3 (as claimed): when the same commit of a repository is ingested twice in
\* succession, every file processed in both runs, the store after the second
\* ingestion equals the store after the first.
C3_IdempotentIngestion ==
    \A i, j \in DOMAIN history :
        (/\ i < j
         /\ Activated(i) /\ Activated(j)
         /\ history[i].clean /\ history[j].clean
         /\ history[i].body = history[j].body
         /\ history[j].before = history[i].after)
        => history[j].after = history[i].after

\* The active commit of a repository: the commit of its latest activation.
ActiveCommit(repo_name) ==
    LET K == { k \in DOMAIN history :
                 Activated(k) /\ history[k].body.repository = repo_name }
    IN IF K = {} THEN None
       ELSE history[CHOOSE k \in K : \A n \in K : n <= k].body.commit_sha

\* C5 (as claimed, invariant I1): whenever no ingestion is in progress and
\* every ingestion so far ran to its activation with every file processed,
\* each vector whose live flag is true carries the active commit of its
\* repository.
C5_LiveIsActiveCommit ==
    (/\ \A w \in WorkerIds : workers[w].pc = "idle"
     /\ \A k \in DOMAIN history : Activated(k) /\ history[k].clean)
    => \A v \in index :
          v.metadata.live => v.metadata.commit_sha = ActiveCommit(v.metadata.repo_name)

\* C6 (as claimed): retrieval never returns a vector of a commit whose
\* ingestion has not completed its activation.
C6_StagedNotRetrieved ==
    \A m \in last_matches :
        \E k \in DOMAIN history :
            /\ Activated(k)
            /\ history[k].body.repository = m.metadata.repo_name
            /\ history[k].body.commit_sha = m.metadata.commit_sha

\* C7 (as claimed): every file whose processing failed in a finished
\* ingestion run has a record in the JSONL error log.
C7_FileFailureJournaled ==
    \A k \in DOMAIN history :
        \A p \in history[k].failed_files :
            \E n \in DOMAIN errors_jsonl : errors_jsonl[n].file_path = <<p>>

\* C12 (as claimed, invariant I6): no namespace of the store holds vectors
\* of two different repositories.
C12_NamespacePerRepository ==
    \A v1, v2 \in index :
        v1.ns = v2.ns => v1.metadata.repo_name = v2.metadata.repo_name

\* C8 (as claimed): a message the worker could not process is not
\* acknowledged: it goes back to the queue or to the dead-letter destination.
C8_FailedMessageNotAcked ==
    \A k \in DOMAIN history :
        history[k].outcome \in {"ctor_failed", "setup_failed", "upsert_failed", "update_failed"}
        => history[k].disposition \in {"returned", "dead_letter"}

\* C23 (as claimed): at no time are two ingestion runs for the same
\* repository in progress.
C23_SingleWriterPerRepository ==
    \A w1, w2 \in WorkerIds :
        (w1 # w2 /\ workers[w1].pc # "idle" /\ workers[w2].pc # "idle")
            => workers[w1].msg.body.repository # workers[w2].msg.body.repository

(***************************************************************************)
(* Claims about the query handler (SpecQuery)                              *)
(***************************************************************************)
Fused(r) == rank_score(r, query_type)

\* The matches the search had to choose from: those of the basic vector
\* search when it was called, those of the strategies otherwise.
Candidates == IF basic_search.called THEN basic_search.matches ELSE all_results

\* C17 (as claimed): the matches used for the answer are deduplicated by key,
\* are in descending order of fused score, number min(K, distinct keys), and
\* no match left out has a higher fused score than one that was kept.
C17_TopKByFusedScore ==
    top_matches # None =>
        /\ \A i, j \in DOMAIN top_matches :
              i # j => top_matches[i].key # top_matches[j].key
        /\ \A i, j \in DOMAIN top_matches :
              i < j => Fused(top_matches[i]) >= Fused(top_matches[j])
        /\ Len(top_matches) =
              LET n == Cardinality({ Candidates[i].key : i \in DOMAIN Candidates })
              IN IF n < TOP_K_AGENTIC THEN n ELSE TOP_K_AGENTIC
        /\ \A i \in DOMAIN Candidates :
              (\A j \in DOMAIN top_matches : top_matches[j].key # Candidates[i].key)
              => \A j \in DOMAIN top_matches : Fused(top_matches[j]) >= Fused(Candidates[i])

\* The return value of intelligent_repository_search.
SearchReturn == _deduplicate_and_rank(all_results, query_type)

KeysOf(matches) == { matches[i].key : i \in DOMAIN matches }

\* C30: a strategy that raises is skipped: when intelligent_repository_search
\* returns, every match a strategy returned is in its return value (by its
\* deduplication key), whatever other strategies raised; the answer is built
\* from these matches, and when there are none (all strategies failed or
\* found nothing) basic_vector_search is called and its matches are used.
\* The query is answered with no matches only after basic_vector_search was
\* called.
C30_FailedStrategySkipped ==
    top_matches # None =>
        /\ \A i \in DOMAIN produced : produced[i].key \in KeysOf(SearchReturn)
        /\ SearchReturn # <<>> =>
              (~basic_search.called /\ KeysOf(top_matches) = KeysOf(SearchReturn))
        /\ SearchReturn = <<>> =>
              (basic_search.called /\ top_matches = TopMatches(basic_search.matches))
        /\ top_matches = <<>> => basic_search.called

\* A strategy raised, another returned a match, and the answer is built from
\* that match.
C30_Witness ==
    /\ top_matches # None
    /\ fault_count > 0
    /\ produced # <<>>
    /\ ~basic_search.called
    /\ top_matches # <<>>

\* Every strategy of every namespace raised, the basic vector search was
\* called and found nothing either.
C30_AllStrategiesFailed ==
    /\ top_matches # None
    /\ top_matches = <<>>
    /\ fault_count = Len(StrategyCalls)
    /\ basic_search = BasicCall("no_matches", <<>>)

(***************************************************************************)
(* Claims about the chunkers (SpecChunker)                                 *)
(***************************************************************************)
\* The number of lines of a text of atoms.
NumLines(text) ==
    1 + Cardinality({ k \in 1..(Len(text) - 1) : text[k].sep = "\n" })

\* A chunk of lines is within the bound, or is one line that alone has more
\* tokens than max_tokens.
WithinBound(chunk) ==
    \/ chunk.token_count <= profile.max_tokens
    \/ /\ Len(chunk.content) = 1
       /\ chunk.content[1].tokens > profile.max_tokens

\* C18: every chunk a chunker emits has token_count <= max_tokens of the call,
\* unless it is one line that alone has more tokens than max_tokens; every
\* chunk re_chunk_if_oversize emits has at most MAX_TOKENS tokens, unless it
\* lies on one line.
C18_TokenBound ==
    /\ \A k \in DOMAIN chunks_out.chunks : WithinBound(chunks_out.chunks[k])
    /\ \A k \in DOMAIN final_chunks.chunks :
          \/ count_tokens(final_chunks.chunks[k]) <= profile.max_tokens
          \/ NumLines(final_chunks.chunks[k]) = 1

\* The same for the chunks of enhanced_chunk_content and of
\* re_chunk_if_oversize only.
C18_EnhancedAndRechunkBound ==
    /\ chunks_out.by = "enhanced_chunk_content" =>
          \A k \in DOMAIN chunks_out.chunks : WithinBound(chunks_out.chunks[k])
    /\ \A k \in DOMAIN final_chunks.chunks :
          \/ count_tokens(final_chunks.chunks[k]) <= profile.max_tokens
          \/ NumLines(final_chunks.chunks[k]) = 1

RECURSIVE ConcatContent(_)
\* The contents of the chunks, one after the other, as lines.
ConcatContent(chunks) ==
    IF chunks = <<>> THEN <<>> ELSE Head(chunks).content \o ConcatContent(Tail(chunks))

\* No line of the file has, with its '\n', more tokens than max_tokens.
NoOversizeUnit ==
    \A k \in DOMAIN file_lines :
        file_lines[k].tokens + profile.newline_tokens <= profile.max_tokens

\* C19: when no line of the file is oversize, the contents of the chunks a
\* chunker emits for the file, concatenated in order, are the lines of the
\* file: none lost, none duplicated, none reordered.
C19_ChunkCoverage ==
    (chunks_out # NotReturned /\ NoOversizeUnit) =>
        ConcatContent(chunks_out.chunks) = file_lines

\* The same for enhanced_chunk_content and _fallback_chunking_with_metadata
\* only.
C19_LineChunkersCover ==
    (chunks_out.by \in {"enhanced_chunk_content", "_fallback_chunking_with_metadata"}
     /\ NoOversizeUnit) =>
        ConcatContent(chunks_out.chunks) = file_lines

(***************************************************************************)
(* Claims about the embedding client (SpecEmbed)                           *)
(***************************************************************************)
\* C25 (as claimed): a request that fails transiently is repeated until it
\* succeeds or 6 attempts have been made: a call that sent a request which the
\* provider answers with n transient failures first has made n + 1 attempts
\* and returned the embedding when n < 6, and 6 attempts otherwise.
C25_RetriedUpToSixAttempts ==
    last_embed.sent # <<>> =>
        IF last_embed.failures < 6
        THEN /\ last_embed.attempts = last_embed.failures + 1
             /\ \A i \in DOMAIN last_embed.result : last_embed.result[i] # NoEmbedding
        ELSE last_embed.attempts = 6

\* C27 (as claimed): over any sequence of generate_embedding and
\* generate_embeddings_batch calls on one client, the provider embeds each
\* distinct text at most once.
C27_EachTextEmbeddedOnce ==
    \A t \in Texts : provider_embedded[t] <= 1

\* The same for the texts that were in the cache when a call started: a text
\* of the cache is never sent.
C27_CachedTextNotSent ==
    [][\A t \in DOMAIN embedding_cache :
          \A j \in DOMAIN last_embed'.sent :
              (last_embed'.fn # "get_embedding" /\ embed_calls' # embed_calls)
                  => last_embed'.sent[j] # t]_vars

\* C28: generate_embeddings_batch returns a list as long as its input, whose
\* element i is the embedding of text i or None.
C28_BatchAligned ==
    last_embed.fn = "generate_embeddings_batch" =>
        /\ Len(last_embed.result) = Len(last_embed.texts)
        /\ \A i \in DOMAIN last_embed.texts :
              last_embed.result[i] \in {EmbeddingOf(last_embed.texts[i]), NoEmbedding}

\* C28 witness: a batch whose first text was not in the cache and whose second
\* text was, returned with both embeddings in place.
C28_Witness ==
    /\ last_embed.fn = "generate_embeddings_batch"
    /\ Len(last_embed.texts) >= 2
    /\ last_embed.texts[1] # last_embed.texts[2]
    /\ last_embed.sent # <<>>
    /\ \A j \in DOMAIN last_embed.sent : last_embed.sent[j] # last_embed.texts[2]
    /\ last_embed.result[1] = EmbeddingOf(last_embed.texts[1])
    /\ last_embed.result[2] = EmbeddingOf(last_embed.texts[2])

====
